---- MODULE Spec2Model ----
\* A model of the subscription / balance / withdrawal bot of src/bot.py.
\* The JSON documents (users.json, keys.json, withdraw_requests.json,
\* withdraw_log.json) are functions from string keys to records; every
\* handler is one action that runs to completion (one update at a time).
EXTENDS Integers, Sequences, FiniteSets, TLC

VARIABLES users, keys, withdraw_requests, withdraw_log, now, last, initial, probe, threads,
          settings, pending, store, web

vars == <<users, keys, withdraw_requests, withdraw_log, now, last, initial, probe, threads,
          settings, pending, store, web>>

\* ------------------------------------------------------------------ bounds
\* largest sum (in cents) of a user's balance and pending requests that an
\* admin command may produce in the model
MaxBal == 200
\* largest number of withdrawal requests created in the model
MaxReq == 2
\* number of 30-day periods the clock may advance
MaxMonths == 1
\* resolution of the clock: ticks per second
TicksPerSecond == 2
\* largest count given to /genkey in the model
MaxCount == 1
\* whole seconds explored by the is_sub_active probe
MaxProbeSecs == 6
\* /gensub is explored while the expiry it starts from is within this many days
MaxSubDays == 32
MaxDraws == 3
MaxGen == 2

\* ------------------------------------------------------------- environment
\* chat ids that talk to the bot; str(chat_id) is the key into users.json
CHAT_IDS == {1, 2}
ADMIN_IDS == {1}
str(n) ==
  CASE n = 0 -> "0" [] n = 1 -> "1" [] n = 2 -> "2" [] n = 3 -> "3"
    [] n = 4 -> "4" [] n = 5 -> "5" [] n = 6 -> "6" [] OTHER -> "many"
UIDS == {str(c) : c \in CHAT_IDS}
\* int(uid) for the uid strings of the model; 0 stands for "raises"
int_of_uid(uid) ==
  CASE uid = "1" -> 1 [] uid = "2" -> 2 [] uid = "3" -> 3 [] OTHER -> 0

\* the clock counts ticks of 1/TicksPerSecond s; stored timestamps are whole seconds
SecondsPerDay == 86400
DURATIONS_monthly == 30
Days(n) == n * SecondsPerDay * TicksPerSecond
\* the instants at which updates arrive: every sub-second position of the
\* first second of each 30-day period
Times == {Days(DURATIONS_monthly) * m + k : m \in 0..MaxMonths, k \in 0..(TicksPerSecond - 1)}
\* strftime("%Y-%m-%d %H:%M:%S") drops the sub-second part; strptime restores
\* a datetime at the whole second
strftime(t) == t \div TicksPerSecond
strptime(s) == s * TicksPerSecond

\* ------------------------------------------------------------------ values
None == <<>>
Some(x) == <<x>>
EmptyDoc == [x \in {} |-> 0]
\* dict[k] = v
Put(doc, k, v) == [x \in (DOMAIN doc) \cup {k} |-> IF x = k THEN v ELSE doc[x]]
\* del dict[k]
Del(doc, k) == [x \in (DOMAIN doc) \ {k} |-> doc[x]]

\* Python floats as far as the handlers can produce them: a number of cents,
\* or NaN. Every comparison with NaN is False.
Num(n) == [nan |-> FALSE, v |-> n]
NaN == [nan |-> TRUE, v |-> 0]
FAdd(a, b) == IF a.nan \/ b.nan THEN NaN ELSE Num(a.v + b.v)
FSub(a, b) == IF a.nan \/ b.nan THEN NaN ELSE Num(a.v - b.v)
FLt(a, b) == ~a.nan /\ ~b.nan /\ a.v < b.v
FLe(a, b) == ~a.nan /\ ~b.nan /\ a.v <= b.v
FGt(a, b) == FLt(b, a)
\* max(0.0, x): x when x > 0.0, else the first argument
FMax0(x) == IF FGt(x, Num(0)) THEN x ELSE Num(0)
\* a request amount is an int of dollars; balances are kept in cents
Cents(amount) == Num(100 * amount)

\* ------------------------------------------------------------- input texts
\* second word of "/withdraw <x>" and the suffix of "withdraw_<x>"
WithdrawTokens == {"", "abc", "-1", "0", "1", "2"}
int_ok(tok) == tok \in {"-1", "0", "1", "2"}
int(tok) == CASE tok = "-1" -> -1 [] tok = "0" -> 0 [] tok = "1" -> 1 [] tok = "2" -> 2 [] OTHER -> 0
\* third word of /addbal, /takebal, /setbal ("" = the word is missing)
AmountTokens == {"", "abc", "nan", "0", "0.004", "1"}
float_ok(tok) == tok \in {"nan", "0", "0.004", "1"}
\* float(tok) in thousandths of a dollar
float_milli(tok) ==
  CASE tok = "0" -> 0 [] tok = "0.004" -> 4 [] tok = "1" -> 1000 [] OTHER -> 0
\* round(v, 2) of a value given in thousandths, in cents (no token sits on a tie)
round2(milli) == (milli + 5) \div 10
KEYS == {"MO-AAAA-AAAA-AAAA", "MO-BBBB-BBBB-BBBB"}
KeyTexts == KEYS \cup {"hello", "mo-aaaa aaaa-aaaa"}
\* text.strip().upper().replace(" ", "")
normalize_key(text) ==
  CASE text = "mo-aaaa aaaa-aaaa" -> "MO-AAAA-AAAA-AAAA"
    [] text = "hello" -> "HELLO"
    [] OTHER -> text
RidTokens == {str(n) : n \in 1..(MaxReq + 1)}

\* ----------------------------------------------------------------- users
\* the record ensure_user writes at time t; "sub" and "await_key" are absent
\* from it, which reads as no subscription and a false flag
\* "label" and "country" are absent too, until list_user_ids writes them as None
Absent == "<absent>"
NoneText == "<None>"
NewUserAt(role, t) ==
  [balance |-> Num(0), role |-> role, created_at |-> Some(strftime(t)), lang |-> "en",
   sub |-> None, await_key |-> FALSE, label |-> Absent, country |-> Absent]
NewUser(role) == NewUserAt(role, now)
\* users.setdefault(uid, {"balance": 0}): a record without role, created_at, lang
StubUser ==
  [balance |-> Num(0), role |-> "", created_at |-> None, lang |-> "",
   sub |-> None, await_key |-> FALSE, label |-> Absent, country |-> Absent]
\* (users.get(uid, {}) or {}).get("balance", 0)
Balance(us, uid) == IF uid \in DOMAIN us THEN us[uid].balance ELSE Num(0)

\* variant: every update starts the sender's record afresh
ensure_user_fresh(us, chat_id) ==
  Put(us, str(chat_id), NewUser(IF chat_id \in ADMIN_IDS THEN "admin" ELSE "user"))

ensure_user(us, chat_id) ==
  LET uid == str(chat_id) IN
  IF uid \notin DOMAIN us
  THEN Put(us, uid, NewUser(IF chat_id \in ADMIN_IDS THEN "admin" ELSE "user"))
  ELSE IF chat_id \in ADMIN_IDS /\ us[uid].role # "admin"
       THEN [us EXCEPT ![uid].role = "admin"]
       ELSE us

LANGS == {"ar", "en", "tr", "es", "fr"}
\* the language codes a set_lang_<code> button may carry in the model
LangCodes == {"ar", "xx"}
set_lang(us, uid, lang) ==
  LET u0 == IF uid \in DOMAIN us THEN us ELSE Put(us, uid, NewUser("user"))
  IN [u0 EXCEPT ![uid].lang = IF lang \in LANGS THEN lang ELSE "en"]

\* variant: every account with a record passes the gate
is_admin_known(us, uid) == uid \in DOMAIN us

is_admin(us, uid) ==
  \/ int_of_uid(uid) \in ADMIN_IDS
  \/ (uid \in DOMAIN us /\ us[uid].role = "admin")

\* ---------------------------------------------------------- subscriptions
\* expire_at is None, a "%Y-%m-%d %H:%M:%S" string (its whole seconds), or a
\* string that strptime rejects
ExpNone == [kind |-> "none", secs |-> 0]
ExpAt(s) == [kind |-> "ts", secs |-> s]
ExpBad == [kind |-> "bad", secs |-> 0]

\* variant: a subscription still counts at the second it expires
is_sub_active_inclusive(us, uid, t) ==
  IF uid \notin DOMAIN us \/ us[uid].sub = None THEN FALSE
  ELSE LET exp == us[uid].sub[1].expire_at IN
       IF exp.kind = "none" THEN TRUE
       ELSE IF exp.kind = "bad" THEN FALSE
       ELSE strptime(exp.secs) >= t

is_sub_active(us, uid, t) ==
  IF uid \notin DOMAIN us \/ us[uid].sub = None THEN FALSE
  ELSE LET exp == us[uid].sub[1].expire_at IN
       IF exp.kind = "none" THEN TRUE
       ELSE IF exp.kind = "bad" THEN FALSE
       ELSE strptime(exp.secs) > t

\* returns the users document it saved and its boolean result
require_active_or_ask(us, chat_id, t) ==
  LET uid == str(chat_id)
      u1 == ensure_user(us, chat_id)
  IN IF is_sub_active(u1, uid, t)
     THEN [users |-> IF u1[uid].await_key THEN [u1 EXCEPT ![uid].await_key = FALSE] ELSE u1,
           ok |-> TRUE]
     ELSE [users |-> [u1 EXCEPT ![uid].await_key = TRUE], ok |-> FALSE]

\* the key values drawn by the loop are `drawn`: fresh and pairwise distinct
generate_keys(ks, drawn) ==
  [k \in (DOMAIN ks) \cup drawn |->
     IF k \in drawn THEN [type |-> "monthly", used_by |-> None] ELSE ks[k]]

\* variant: a key is accepted whether or not it has been used
activate_key_reusable(us, ks, uid, key, t) ==
  IF key \notin DOMAIN ks \/ ks[key].type # "monthly"
  THEN [users |-> us, keys |-> ks, ok |-> FALSE]
  ELSE LET u0 == IF uid \in DOMAIN us THEN us ELSE Put(us, uid, StubUser)
           exp == strftime(t + Days(DURATIONS_monthly))
       IN [users |-> [u0 EXCEPT ![uid].sub = Some([type |-> "monthly", expire_at |-> ExpAt(exp), key |-> key]),
                                ![uid].await_key = FALSE],
           keys |-> [ks EXCEPT ![key].used_by = Some(uid)],
           ok |-> TRUE]

\* variant: the subscription runs from the activation time without a duration
activate_key_no_duration(us, ks, uid, key, t) ==
  IF key \notin DOMAIN ks \/ ks[key].used_by # None \/ ks[key].type # "monthly"
  THEN [users |-> us, keys |-> ks, ok |-> FALSE]
  ELSE LET u0 == IF uid \in DOMAIN us THEN us ELSE Put(us, uid, StubUser)
       IN [users |-> [u0 EXCEPT ![uid].sub = Some([type |-> "monthly", expire_at |-> ExpAt(strftime(t)), key |-> key]),
                                ![uid].await_key = FALSE],
           keys |-> [ks EXCEPT ![key].used_by = Some(uid)],
           ok |-> TRUE]

activate_key_for_user(us, ks, uid, key, t) ==
  IF key \notin DOMAIN ks \/ ks[key].used_by # None \/ ks[key].type # "monthly"
  THEN [users |-> us, keys |-> ks, ok |-> FALSE]
  ELSE LET u0 == IF uid \in DOMAIN us THEN us ELSE Put(us, uid, StubUser)
           exp == strftime(t + Days(DURATIONS_monthly))
       IN [users |-> [u0 EXCEPT ![uid].sub = Some([type |-> "monthly", expire_at |-> ExpAt(exp), key |-> key]),
                                ![uid].await_key = FALSE],
           keys |-> [ks EXCEPT ![key].used_by = Some(uid)],
           ok |-> TRUE]

\* KEY_RE: of the normalised texts of the model, exactly the KEYS are well-formed
KEY_RE_match(text) == text \in KEYS

\* ------------------------------------------------------------ withdrawals
\* variant: the request is recorded but the balance is not debited
create_withdraw_request_no_debit(us, wr, uid, amount) ==
  IF amount <= 0
  THEN [users |-> us, wr |-> wr, res |-> "withdraw_invalid"]
  ELSE IF FLt(Balance(us, uid), Cents(amount))
       THEN [users |-> us, wr |-> wr, res |-> "withdraw_insufficient"]
       ELSE [users |-> us,
             wr |-> Put(wr, str(Cardinality(DOMAIN wr) + 1),
                        [user_id |-> uid, amount |-> amount, status |-> "pending"]),
             res |-> "withdraw_created"]

\* variant: an amount above the balance is answered as insufficient, but the
\* request is recorded all the same
create_withdraw_request_records_refused(us, wr, uid, amount) ==
  IF amount <= 0
  THEN [users |-> us, wr |-> wr, res |-> "withdraw_invalid"]
  ELSE LET bal == Balance(us, uid)
           wr2 == Put(wr, str(Cardinality(DOMAIN wr) + 1),
                      [user_id |-> uid, amount |-> amount, status |-> "pending"])
       IN IF FLt(bal, Cents(amount))
          THEN [users |-> us, wr |-> wr2, res |-> "withdraw_insufficient"]
          ELSE [users |-> [us EXCEPT ![uid].balance = FSub(bal, Cents(amount))],
                wr |-> wr2, res |-> "withdraw_created"]

\* variant: the id counts the requests still pending, not all requests
create_withdraw_request_counts_pending(us, wr, uid, amount) ==
  IF amount <= 0
  THEN [users |-> us, wr |-> wr, res |-> "withdraw_invalid"]
  ELSE LET bal == Balance(us, uid) IN
       IF FLt(bal, Cents(amount))
       THEN [users |-> us, wr |-> wr, res |-> "withdraw_insufficient"]
       ELSE LET req_id == str(Cardinality({r \in DOMAIN wr : wr[r].status = "pending"}) + 1)
                u0 == IF uid \in DOMAIN us THEN us ELSE Put(us, uid, StubUser)
            IN [users |-> [u0 EXCEPT ![uid].balance = FSub(bal, Cents(amount))],
                wr |-> Put(wr, req_id, [user_id |-> uid, amount |-> amount, status |-> "pending"]),
                res |-> "withdraw_created"]

create_withdraw_request(us, wr, uid, amount) ==
  IF amount <= 0
  THEN [users |-> us, wr |-> wr, res |-> "withdraw_invalid"]
  ELSE LET bal == Balance(us, uid) IN
       IF FLt(bal, Cents(amount))
       THEN [users |-> us, wr |-> wr, res |-> "withdraw_insufficient"]
       ELSE LET req_id == str(Cardinality(DOMAIN wr) + 1)
                u0 == IF uid \in DOMAIN us THEN us ELSE Put(us, uid, StubUser)
            IN [users |-> [u0 EXCEPT ![uid].balance = FSub(bal, Cents(amount))],
                wr |-> Put(wr, req_id, [user_id |-> uid, amount |-> amount, status |-> "pending"]),
                res |-> "withdraw_created"]

\* variant: any known request may be decided, whatever its status
is_known(wr, rid) == rid \in DOMAIN wr

\* req = withdraw_requests.get(rid); not (not req or req.get("status") != "pending")
is_pending(wr, rid) == rid \in DOMAIN wr /\ wr[rid].status = "pending"

\* variant: the log keeps one entry, the latest
log_latest(lg, req, action) ==
  Put(lg, "1",
      [user_id |-> req.user_id, amount |-> req.amount, status |-> req.status,
       processed_at |-> strftime(now), action |-> action])

\* logbook[str(len(logbook)+1)] = {**req, "processed_at": _now_str(), "action": action}
log_append(lg, req, action) ==
  Put(lg, str(Cardinality(DOMAIN lg) + 1),
      [user_id |-> req.user_id, amount |-> req.amount, status |-> req.status,
       processed_at |-> strftime(now), action |-> action])

\* variant: an approval also pays the amount back
approve_with_refund(us, wr, lg, rid) ==
  LET owner == wr[rid].user_id
      wr2 == [wr EXCEPT ![rid].status = "approved"]
  IN [users |-> [us EXCEPT ![owner].balance = FAdd(us[owner].balance, Cents(wr[rid].amount))],
      wr |-> wr2, log |-> log_append(lg, wr2[rid], "approved")]

\* the wapp_ branch of callbacks, after the admin gate and the pending guard
approve(us, wr, lg, rid) ==
  LET wr2 == [wr EXCEPT ![rid].status = "approved"]
  IN [users |-> us, wr |-> wr2, log |-> log_append(lg, wr2[rid], "approved")]

\* variant: a denial pays nothing back
deny_without_refund(us, wr, lg, rid) ==
  LET wr2 == [wr EXCEPT ![rid].status = "denied"]
  IN [users |-> us, wr |-> wr2, log |-> log_append(lg, wr2[rid], "denied")]

\* the wden_ branch of callbacks, after the admin gate and the pending guard
deny(us, wr, lg, rid) ==
  LET owner == wr[rid].user_id
      u0 == IF owner \in DOMAIN us THEN us ELSE Put(us, owner, StubUser)
      wr2 == [wr EXCEPT ![rid].status = "denied"]
  IN [users |-> [u0 EXCEPT ![owner].balance = FAdd(u0[owner].balance, Cents(wr[rid].amount))],
      wr |-> wr2, log |-> log_append(lg, wr2[rid], "denied")]

\* ---------------------------------------------------------------- balances
\* None is <<>>, a value is <<float>>
parse_amount(tok) ==
  IF ~float_ok(tok) THEN None
  ELSE IF tok = "nan" THEN Some(NaN)
  ELSE IF float_milli(tok) <= 0 \/ float_milli(tok) > 1000000 * 1000 THEN None
  ELSE Some(Num(round2(float_milli(tok))))

\* ------------------------------------------------------------------ state
\* handlers running on the worker threads of TeleBot(threaded=True): what each
\* has loaded and where it stands. A handler that the model runs in one step
\* never appears here.
THREADS == {1, 2}
IdleThread ==
  [pc |-> "idle", uid |-> "", n |-> 0, amount |-> Num(0), l_users |-> EmptyDoc,
   l_bal |-> Num(0), key |-> "", l_keys |-> EmptyDoc, l_wr |-> EmptyDoc]
NoThreads == [t \in THREADS |-> IdleThread]
\* settings.json: WEBSITE_URL, None when the key is absent
NoSettings == [WEBSITE_URL |-> None]
\* _pending_label, _pending_country (admin id -> target uid) and
\* _pending_player_search (admin id -> page), kept in memory
NoPending == [label |-> EmptyDoc, country |-> EmptyDoc, search |-> EmptyDoc]

\* ---------------------------------------------------------------- storage
\* Python values handed to save_json: <<type, payload>>
PyNone == <<"None", 0>>
PyInt(n) == <<"int", n>>
PyFloat(f) == <<"float", f>>
PyStr(x) == <<"str", x>>
PyList(q) == <<"list", q>>
PyDict(d) == <<"dict", d>>

\* json.dumps(value, ensure_ascii=False): the JSON text, as its syntax tree
\* <<kind, payload>>
RECURSIVE json_dumps(_)
json_dumps(x) ==
  CASE x[1] = "None" -> <<"null", 0>>
    [] x[1] = "int" -> <<"integer", x[2]>>
    [] x[1] = "float" -> IF x[2].nan THEN <<"NaN", 0>> ELSE <<"fraction", x[2].v>>
    [] x[1] = "str" -> <<"string", x[2]>>
    [] x[1] = "list" -> <<"array", [i \in DOMAIN x[2] |-> json_dumps(x[2][i])]>>
    [] x[1] = "dict" -> <<"object", [k \in DOMAIN x[2] |-> json_dumps(x[2][k])]>>

RECURSIVE json_loads(_)
\* variant: every number is read as a float
json_loads_floats(text) ==
  CASE text[1] = "null" -> PyNone
    [] text[1] = "integer" -> PyFloat(Cents(text[2]))
    [] text[1] = "NaN" -> PyFloat(NaN)
    [] text[1] = "fraction" -> PyFloat(Num(text[2]))
    [] text[1] = "string" -> PyStr(text[2])
    [] text[1] = "array" -> PyList([i \in DOMAIN text[2] |-> json_loads(text[2][i])])
    [] text[1] = "object" -> PyDict([k \in DOMAIN text[2] |-> json_loads(text[2][k])])

\* json.load / json.loads
json_loads(text) ==
  CASE text[1] = "null" -> PyNone
    [] text[1] = "integer" -> PyInt(text[2])
    [] text[1] = "NaN" -> PyFloat(NaN)
    [] text[1] = "fraction" -> PyFloat(Num(text[2]))
    [] text[1] = "string" -> PyStr(text[2])
    [] text[1] = "array" -> PyList([i \in DOMAIN text[2] |-> json_loads(text[2][i])])
    [] text[1] = "object" -> PyDict([k \in DOMAIN text[2] |-> json_loads(text[2][k])])

\* names given to save_json and load_json; the bot itself uses "<x>.json"
StoreNames == {"users.json", "users"}
\* DATA_FILES.get(name.replace(".json", ""), name), and name itself when that
\* does not end in ".json"
path_of(name) == IF name \in {"users.json", "users"} THEN "users.json" ELSE name

\* documents of the kinds the bot saves: mappings, lists, numbers, strings, None
StoreValues ==
  { PyNone,
    PyDict(EmptyDoc),
    PyDict([a |-> PyDict([balance |-> PyFloat(Num(150)), label |-> PyNone,
                          lang |-> PyStr("en"), amount |-> PyInt(1)])]),
    PyDict([a |-> PyDict([balance |-> PyFloat(NaN)])]),
    PyDict([a |-> PyDict([total_win |-> PyFloat(Num(0)),
                          history |-> PyList(<<PyDict([kind |-> PyStr("win"), amount |-> PyFloat(Num(100))])>>)])]),
    PyList(<<PyInt(1), PyFloat(Num(100)), PyStr("1")>>) }

\* use_db: USE_DB; db_up: the database answers; rows: table kv_store;
\* files: the data directory; saved, got: the last save_json and the last
\* result of load_json
\* w: the call of _atomic_write_json under way, if any
NoWrite == [pc |-> "idle", path |-> "", text |-> <<"null", 0>>]
NoStore == [use_db |-> FALSE, db_up |-> FALSE, rows |-> EmptyDoc, files |-> EmptyDoc,
            saved |-> None, got |-> None, w |-> NoWrite]

\* the webhook endpoint: status of the last response (0: none yet) and whether
\* an earlier POST ended in the except branch
NoWeb == [status |-> 0, failed |-> FALSE]

Init ==
  /\ users = EmptyDoc
  /\ keys = EmptyDoc
  /\ withdraw_requests = EmptyDoc
  /\ withdraw_log = EmptyDoc
  /\ now = 0
  /\ last = ""
  /\ initial = [u \in UIDS |-> Num(0)]
  /\ probe = ""
  /\ threads = NoThreads
  /\ settings = NoSettings
  /\ pending = NoPending
  /\ store = NoStore
  /\ web = NoWeb

\* last: the business-rule rejection the most recent handler answered with,
\* "" when it answered anything else
\* ("key_used" is the key_invalid answer given for a key that is already used)
Rejections == {"withdraw_invalid", "withdraw_insufficient", "already_processed",
               "key_invalid", "key_used"}
\* ... and the one confirmation the properties refer to
Answers == Rejections \cup {"bal_taken_ok", "genkey_redrawn"}
\* ... and the commands whose "admin_only" reply they refer to
NotedRefusals == {"delsub", "setwebsite", "delwebsite"}
Done(op, res) ==
  last' = IF res \in Answers \/ (res = "admin_only" /\ op \in NotedRefusals) THEN res ELSE ""

\* time passes between two updates
Tick ==
  /\ \E t \in Times : t > now /\ now' = t
  /\ Done("tick", "")
  /\ UNCHANGED <<users, keys, withdraw_requests, withdraw_log, initial, probe, threads, settings, pending, store, web>>

\* ---------------------------------------------------------------- handlers
cmd_start(c) ==
  LET r == require_active_or_ask(ensure_user(users, c), c, now) IN
  /\ users' = r.users
  /\ Done("start", IF r.ok THEN "menu" ELSE "need_key")
  /\ UNCHANGED <<keys, withdraw_requests, withdraw_log, now, initial, probe, threads, settings, pending, store, web>>

\* the effect of a handler that ends in create_withdraw_request(us, ., uid, amount)
CreateStep(op, us, uid, amount) ==
  LET r == create_withdraw_request(us, withdraw_requests, uid, amount) IN
  /\ r.res = "withdraw_created" => Cardinality(DOMAIN withdraw_requests) < MaxReq
  /\ users' = r.users
  /\ withdraw_requests' = r.wr
  /\ Done(op, r.res)

cmd_withdraw(c, tok) ==
  LET uid == str(c)
      r == require_active_or_ask(ensure_user(users, c), c, now)
  IN /\ IF ~r.ok
        THEN users' = r.users /\ Done("cmd_withdraw", "need_key") /\ UNCHANGED withdraw_requests
        ELSE IF tok = ""
        THEN users' = r.users /\ Done("cmd_withdraw", "menu") /\ UNCHANGED withdraw_requests
        ELSE IF ~int_ok(tok)
        THEN users' = r.users /\ Done("cmd_withdraw", "withdraw_invalid") /\ UNCHANGED withdraw_requests
        ELSE CreateStep("cmd_withdraw", r.users, uid, int(tok))
     /\ UNCHANGED <<keys, withdraw_log, now, initial, probe, threads, settings, pending, store, web>>

\* callbacks, data = "withdraw_<tok>"
cb_withdraw(c, tok) ==
  /\ CreateStep("cb_withdraw", ensure_user(users, c), str(c), IF int_ok(tok) THEN int(tok) ELSE 0)
  /\ UNCHANGED <<keys, withdraw_log, now, initial, probe, threads, settings, pending, store, web>>

\* callbacks, data = "wapp_<rid>"
cb_wapp(c, rid) ==
  LET uid == str(c)
      u1 == ensure_user(users, c)
  IN /\ IF ~is_admin(u1, uid)
        THEN users' = u1 /\ Done("wapp", "not_admin") /\ UNCHANGED <<withdraw_requests, withdraw_log>>
        ELSE IF ~is_pending(withdraw_requests, rid)
        THEN users' = u1 /\ Done("wapp", "already_processed") /\ UNCHANGED <<withdraw_requests, withdraw_log>>
        ELSE LET r == approve(u1, withdraw_requests, withdraw_log, rid) IN
             /\ users' = r.users
             /\ withdraw_requests' = r.wr
             /\ withdraw_log' = r.log
             /\ Done("wapp", "approved")
     /\ UNCHANGED <<keys, now, initial, probe, threads, settings, pending, store, web>>

\* callbacks, data = "wden_<rid>"
cb_wden(c, rid) ==
  LET uid == str(c)
      u1 == ensure_user(users, c)
  IN /\ IF ~is_admin(u1, uid)
        THEN users' = u1 /\ Done("wden", "not_admin") /\ UNCHANGED <<withdraw_requests, withdraw_log>>
        ELSE IF ~is_pending(withdraw_requests, rid)
        THEN users' = u1 /\ Done("wden", "already_processed") /\ UNCHANGED <<withdraw_requests, withdraw_log>>
        ELSE LET r == deny(u1, withdraw_requests, withdraw_log, rid) IN
             /\ users' = r.users
             /\ withdraw_requests' = r.wr
             /\ withdraw_log' = r.log
             /\ Done("wden", "denied")
     /\ UNCHANGED <<keys, now, initial, probe, threads, settings, pending, store, web>>

\* callbacks, data = "cancel_<rid>": accepted by the filter, matched by no branch
cb_cancel(c, rid) ==
  /\ users' = ensure_user(users, c)
  /\ Done("cancel", "ignored")
  /\ UNCHANGED <<keys, withdraw_requests, withdraw_log, now, initial, probe, threads, settings, pending, store, web>>

RECURSIVE SumAmounts(_, _)
\* sum of the amounts (in cents) of the requests of wr whose key is in ids
SumAmounts(wr, ids) ==
  IF ids = {} THEN 0
  ELSE LET k == CHOOSE x \in ids : TRUE IN 100 * wr[k].amount + SumAmounts(wr, ids \ {k})
\* the requests of uid with one of the statuses
RequestsOf(wr, uid, statuses) ==
  {k \in DOMAIN wr : wr[k].user_id = uid /\ wr[k].status \in statuses}

\* the common shape of /addbal, /takebal, /setbal: f(old balance, amount)
AdminBal(op, c, target, tok, newbal) ==
  LET uid == str(c)
      u1 == ensure_user(users, c)
      amount == parse_amount(tok)
  IN /\ IF ~is_admin(u1, uid) THEN users' = u1 /\ Done(op, "admin_only")
        ELSE IF tok = "" THEN users' = u1 /\ Done(op, "usage")
        ELSE IF amount = None THEN users' = u1 /\ Done(op, "invalid_amount")
        ELSE IF target \notin DOMAIN u1 THEN users' = u1 /\ Done(op, "user_not_found")
        ELSE /\ newbal.nan \/ newbal.v + SumAmounts(withdraw_requests,
                               RequestsOf(withdraw_requests, target, {"pending"})) <= MaxBal
             /\ users' = [u1 EXCEPT ![target].balance = newbal]
             /\ Done(op, IF op = "takebal" THEN "bal_taken_ok" ELSE "ok")
     /\ UNCHANGED <<keys, withdraw_requests, withdraw_log, now, initial, probe, threads, settings, pending, store, web>>

\* variant: the subtraction is stored without the floor at 0
takebal_unclamped(us, target, tok) == FSub(Balance(us, target), parse_amount(tok)[1])

addbal_value(us, target, tok) == FAdd(Balance(us, target), parse_amount(tok)[1])
takebal_value(us, target, tok) == FMax0(FSub(Balance(us, target), parse_amount(tok)[1]))
setbal_value(us, target, tok) == parse_amount(tok)[1]

cmd_addbal(c, target, tok) == AdminBal("addbal", c, target, tok, addbal_value(users, target, tok))
cmd_takebal(c, target, tok) == AdminBal("takebal", c, target, tok, takebal_value(users, target, tok))
cmd_setbal(c, target, tok) == AdminBal("setbal", c, target, tok, setbal_value(users, target, tok))

\* "/delsub <target>"
\* variant: the subscription is left in place
delsub_kept(us, target) == us

\* users[target].pop("sub", None)
delsub_value(us, target) == [us EXCEPT ![target].sub = None]

cmd_delsub(c, target) ==
  LET uid == str(c)
      u1 == ensure_user(users, c)
  IN /\ IF ~is_admin(u1, uid) THEN users' = u1 /\ Done("delsub", "admin_only")
        ELSE IF target \in DOMAIN u1 /\ u1[target].sub # None
        THEN users' = delsub_value(u1, target) /\ Done("delsub", "delsub_ok")
        ELSE users' = u1 /\ Done("delsub", "delsub_not_found")
     /\ UNCHANGED <<keys, withdraw_requests, withdraw_log, now, initial, probe, threads, settings, pending, store, web>>

\* the rest of "/setwebsite <url>" ("" = the word is missing)
UrlTexts == {"", "ftp://x", "https://x"}
\* re.match(r"^https?://", url)
url_ok(url) == url \in {"https://x"}
cmd_setwebsite(c, url) ==
  LET uid == str(c)
      u1 == ensure_user(users, c)
  IN /\ users' = u1
     /\ IF ~is_admin(u1, uid) THEN Done("setwebsite", "admin_only") /\ UNCHANGED settings
        ELSE IF url = "" \/ ~url_ok(url) THEN Done("setwebsite", "usage") /\ UNCHANGED settings
        ELSE settings' = [settings EXCEPT !.WEBSITE_URL = Some(url)] /\ Done("setwebsite", "ok")
     /\ UNCHANGED <<keys, withdraw_requests, withdraw_log, now, initial, probe, threads, pending, store, web>>

cmd_delwebsite(c) ==
  LET uid == str(c)
      u1 == ensure_user(users, c)
  IN /\ users' = u1
     /\ IF ~is_admin(u1, uid) THEN Done("delwebsite", "admin_only") /\ UNCHANGED settings
        ELSE settings' = [settings EXCEPT !.WEBSITE_URL = None] /\ Done("delwebsite", "ok")
     /\ UNCHANGED <<keys, withdraw_requests, withdraw_log, now, initial, probe, threads, pending, store, web>>

\* list_user_ids gives every record a "label" and a "country" and saves
list_user_ids(us) ==
  [u \in DOMAIN us |->
     [us[u] EXCEPT !.label = IF @ = Absent THEN NoneText ELSE @,
                   !.country = IF @ = Absent THEN NoneText ELSE @]]

\* "/players", and callback players:page:<n>: both render a page of the list
cmd_players(c) ==
  LET uid == str(c)
      u1 == ensure_user(users, c)
  IN /\ users' = IF is_admin(u1, uid) THEN list_user_ids(u1) ELSE u1
     /\ Done("players", "")
     /\ UNCHANGED <<keys, withdraw_requests, withdraw_log, now, initial, probe, threads, settings, pending, store, web>>

\* callback players:page:<page>; int(page) raises for a page that is no number,
\* after the admin gate and before list_user_ids
players_page_raises(us, c, page) == is_admin(ensure_user(us, c), str(c)) /\ ~int_ok(page)
cb_players_page_run(c, page) ==
  LET uid == str(c)
      u1 == ensure_user(users, c)
  IN /\ users' = IF is_admin(u1, uid) /\ int_ok(page) THEN list_user_ids(u1) ELSE u1
     /\ Done("players:page", "")
     /\ UNCHANGED <<keys, withdraw_requests, withdraw_log, now, initial, probe, threads, settings, pending, store>>

cb_players_page(c) == cb_players_page_run(c, "1") /\ UNCHANGED web

\* callback players:view:<sid>:<page>: reads only
cb_player_view(c, sid) ==
  /\ users' = ensure_user(users, c)
  /\ Done("players:view", "")
  /\ UNCHANGED <<keys, withdraw_requests, withdraw_log, now, initial, probe, threads, settings, pending, store, web>>

\* callbacks players:label:<sid>:<page>, players:country:<sid>:<page>,
\* players:search:<page>; the page is 1 in the model
PlayerSlot(c, slot, value) ==
  LET uid == str(c)
      u1 == ensure_user(users, c)
  IN /\ users' = u1
     /\ IF ~is_admin(u1, uid) THEN UNCHANGED pending
        ELSE pending' = [pending EXCEPT ![slot] = Put(@, c, value)]
     /\ Done("players:" \o slot, "")
     /\ UNCHANGED <<keys, withdraw_requests, withdraw_log, now, initial, probe, threads, settings, store, web>>

cb_player_label(c, sid) == PlayerSlot(c, "label", sid)
cb_player_country(c, sid) == PlayerSlot(c, "country", sid)
cb_players_search(c) == PlayerSlot(c, "search", "1")

\* callback set_lang_<code>
cb_set_lang_run(c, code) ==
  LET u1 == ensure_user(users, c) IN
  /\ users' = IF code \in LANGS THEN set_lang(u1, str(c), code) ELSE u1
  /\ Done("set_lang", "lang_updated")
  /\ UNCHANGED <<keys, withdraw_requests, withdraw_log, now, initial, probe, threads, settings, pending, store>>

cb_set_lang(c, code) == cb_set_lang_run(c, code) /\ UNCHANGED web

cmd_genkey(c, count) ==
  LET uid == str(c)
      u1 == ensure_user(users, c)
  IN /\ users' = u1
     /\ IF ~is_admin(u1, uid) THEN Done("genkey", "admin_only") /\ UNCHANGED keys
        ELSE IF count < 1 \/ count > 100 THEN Done("genkey", "bad_count") /\ UNCHANGED keys
        ELSE \E drawn \in SUBSET (KEYS \ DOMAIN keys) :
               /\ Cardinality(drawn) = count
               /\ keys' = generate_keys(keys, drawn)
               /\ Done("genkey", "ok")
     /\ UNCHANGED <<withdraw_requests, withdraw_log, now, initial, probe, threads, settings, pending, store, web>>

cmd_delkey(c, key) ==
  LET uid == str(c)
      u1 == ensure_user(users, c)
  IN /\ users' = u1
     /\ IF ~is_admin(u1, uid) THEN Done("delkey", "admin_only") /\ UNCHANGED keys
        ELSE IF key \in DOMAIN keys THEN keys' = Del(keys, key) /\ Done("delkey", "ok")
        ELSE Done("delkey", "not_found") /\ UNCHANGED keys
     /\ UNCHANGED <<withdraw_requests, withdraw_log, now, initial, probe, threads, settings, pending, store, web>>

\* "/gensub <target> <mode> [<days>]"; days is the 4th word ("" = missing)
cmd_gensub(c, target, mode, days) ==
  LET uid == str(c)
      u1 == ensure_user(users, c)
      u2 == IF target \in DOMAIN u1 THEN u1 ELSE Put(u1, target, NewUser("user"))
      sub == u2[target].sub
      base == IF sub # None /\ sub[1].expire_at.kind = "ts"
              THEN strptime(sub[1].expire_at.secs) ELSE now
      grant(exp) == [u2 EXCEPT ![target].sub =
                       Some([type |-> "monthly", expire_at |-> ExpAt(exp), key |-> "MANUAL"])]
  IN /\ IF ~is_admin(u1, uid) THEN users' = u1 /\ Done("gensub", "admin_only")
        ELSE IF mode = "monthly"
        THEN users' = grant(strftime(now + Days(DURATIONS_monthly))) /\ Done("gensub", "ok")
        ELSE IF mode = "+days" /\ int_ok(days)
        THEN users' = grant(strftime(base + Days(int(days)))) /\ Done("gensub", "ok")
        ELSE users' = u1 /\ Done("gensub", "usage")
     /\ UNCHANGED <<keys, withdraw_requests, withdraw_log, now, initial, probe, threads, settings, pending, store, web>>

\* variant: the text is tried as a key whether or not the user was asked for one
maybe_activate_key_unasked(c, text) ==
  LET uid == str(c)
      u1 == ensure_user(users, c)
      key == normalize_key(text)
      r == activate_key_for_user(u1, keys, uid, key, now)
  IN /\ IF KEY_RE_match(key) /\ r.ok
        THEN users' = r.users /\ keys' = r.keys /\ Done("text", "key_ok")
        ELSE users' = u1 /\ Done("text", "key_invalid") /\ UNCHANGED keys
     /\ UNCHANGED <<withdraw_requests, withdraw_log, now, initial, probe, threads, settings, pending, store, web>>

\* a plain-text message that no earlier handler takes
maybe_activate_key(c, text) ==
  LET uid == str(c)
      u1 == ensure_user(users, c)
      key == normalize_key(text)
      r == activate_key_for_user(u1, keys, uid, key, now)
  IN /\ IF ~u1[uid].await_key
        THEN users' = u1 /\ Done("text", "ignored") /\ UNCHANGED keys
        ELSE IF KEY_RE_match(key) /\ r.ok
        THEN users' = r.users /\ keys' = r.keys /\ Done("text", "key_ok")
        ELSE /\ users' = u1
             /\ Done("text", IF key \in DOMAIN keys /\ keys[key].used_by # None
                             THEN "key_used" ELSE "key_invalid")
             /\ UNCHANGED keys
     /\ UNCHANGED <<withdraw_requests, withdraw_log, now, initial, probe, threads, settings, pending, store, web>>

\* the withdrawal and balance handlers
\* ------------------------------------------------- handlers, step by step
\* Between its load_json and its save_json a handler holds a private copy of
\* the document; other threads may save in between.
\* variant: the request is recorded without touching the balance
debit_not_saved(l_users, uid, bal, amount) ==
  IF uid \in DOMAIN l_users THEN l_users ELSE Put(l_users, uid, StubUser)

\* users.setdefault(uid, {"balance": 0}); users[uid]["balance"] = bal - amount
debit_saved(l_users, uid, bal, amount) ==
  LET u0 == IF uid \in DOMAIN l_users THEN l_users ELSE Put(l_users, uid, StubUser)
  IN [u0 EXCEPT ![uid].balance = FSub(bal, Cents(amount))]

\* users[uid]["balance"] = float(users[uid].get("balance", 0)) + amount
credit_saved(l_users, uid, amount) ==
  [l_users EXCEPT ![uid].balance = FAdd(l_users[uid].balance, amount)]

\* thread t moves to pc with the fields of `with` replaced
Goto(t, rec) == threads' = [threads EXCEPT ![t] = rec]

\* callbacks, data = "withdraw_<tok>", up to the amount check of
\* create_withdraw_request
W_begin(t, c, tok) ==
  LET amount == IF int_ok(tok) THEN int(tok) ELSE 0 IN
  /\ threads[t].pc = "idle"
  /\ users' = ensure_user(users, c)
  /\ IF amount <= 0
     THEN Goto(t, [threads[t] EXCEPT !.pc = "refused", !.uid = str(c)])
          /\ Done("cb_withdraw", "withdraw_invalid")
     ELSE Goto(t, [threads[t] EXCEPT !.pc = "w_load", !.uid = str(c), !.n = amount])
          /\ Done("cb_withdraw", "")
  /\ UNCHANGED <<keys, withdraw_requests, withdraw_log, now, initial, probe, settings, pending, store, web>>

\* users = load_json("users.json"); bal = ...; if bal < amount: return
W_load(t) ==
  LET th == threads[t]
      bal == Balance(users, th.uid)
  IN /\ th.pc = "w_load"
     /\ IF FLt(bal, Cents(th.n))
        THEN Goto(t, [th EXCEPT !.pc = "refused"]) /\ Done("cb_withdraw", "withdraw_insufficient")
        ELSE Goto(t, [th EXCEPT !.pc = "w_request", !.l_users = users, !.l_bal = bal])
             /\ Done("cb_withdraw", "")
     /\ UNCHANGED <<users, keys, withdraw_requests, withdraw_log, now, initial, probe, settings, pending, store, web>>

\* req_id = str(len(withdraw_requests) + 1); withdraw_requests[req_id] = {...},
\* on the copy l_wr loaded by the handler
request_saved(l_wr, uid, amount) ==
  Put(l_wr, str(Cardinality(DOMAIN l_wr) + 1), [user_id |-> uid, amount |-> amount, status |-> "pending"])

\* withdraw_requests = load_json("withdraw_requests.json")
W_request(t) ==
  LET th == threads[t] IN
  /\ th.pc = "w_request"
  /\ Cardinality(DOMAIN withdraw_requests) < MaxReq
  /\ Goto(t, [th EXCEPT !.pc = "w_reqsave", !.l_wr = withdraw_requests])
  /\ Done("cb_withdraw", "")
  /\ UNCHANGED <<users, keys, withdraw_requests, withdraw_log, now, initial, probe, settings, pending, store, web>>

\* the copy loaded by W_request, with the new request added, is saved
W_reqsave(t) ==
  LET th == threads[t] IN
  /\ th.pc = "w_reqsave"
  /\ withdraw_requests' = request_saved(th.l_wr, th.uid, th.n)
  /\ Goto(t, [th EXCEPT !.pc = "w_debit", !.l_wr = EmptyDoc])
  /\ Done("cb_withdraw", "")
  /\ UNCHANGED <<users, keys, withdraw_log, now, initial, probe, settings, pending, store, web>>

\* the copy loaded by W_load, with the balance debited, is saved
W_debit(t) ==
  LET th == threads[t] IN
  /\ th.pc = "w_debit"
  /\ users' = debit_saved(th.l_users, th.uid, th.l_bal, th.n)
  /\ Goto(t, [th EXCEPT !.pc = "w_done", !.l_users = EmptyDoc])
  /\ Done("cb_withdraw", "withdraw_created")
  /\ UNCHANGED <<keys, withdraw_requests, withdraw_log, now, initial, probe, settings, pending, store, web>>

\* /addbal <target> <tok>, up to _parse_amount
A_begin(t, c, target, tok) ==
  LET u1 == ensure_user(users, c)
      amount == parse_amount(tok)
  IN /\ threads[t].pc = "idle"
     /\ users' = u1
     /\ IF ~is_admin(u1, str(c)) \/ tok = ""
        THEN Goto(t, [threads[t] EXCEPT !.pc = "refused", !.uid = target])
        ELSE Goto(t, [threads[t] EXCEPT !.pc = "a_load", !.uid = target,
                                        !.amount = IF amount = None THEN Num(0) ELSE amount[1],
                                        !.n = IF amount = None THEN 0 ELSE 1])
     /\ Done("addbal", "")
     /\ UNCHANGED <<keys, withdraw_requests, withdraw_log, now, initial, probe, settings, pending, store, web>>

\* users = load_json("users.json"); the two early returns
A_load(t) ==
  LET th == threads[t] IN
  /\ th.pc = "a_load"
  /\ IF th.n = 0 \/ th.uid \notin DOMAIN users
     THEN Goto(t, [th EXCEPT !.pc = "refused"])
     ELSE Goto(t, [th EXCEPT !.pc = "a_save", !.l_users = users])
  /\ Done("addbal", "")
  /\ UNCHANGED <<users, keys, withdraw_requests, withdraw_log, now, initial, probe, settings, pending, store, web>>

\* the copy loaded by A_load, with the balance raised, is saved
A_save(t) ==
  LET th == threads[t] IN
  /\ th.pc = "a_save"
  /\ users' = credit_saved(th.l_users, th.uid, th.amount)
  /\ Goto(t, [th EXCEPT !.pc = "a_done", !.l_users = EmptyDoc])
  /\ Done("addbal", "ok")
  /\ UNCHANGED <<keys, withdraw_requests, withdraw_log, now, initial, probe, settings, pending, store, web>>

\* variant: the key is saved without its user
keys_not_marked(l_keys, key, uid) == l_keys

\* keys[key]["used_by"] = uid, on the copy loaded by the handler
keys_marked(l_keys, key, uid) == [l_keys EXCEPT ![key].used_by = Some(uid)]
\* users.setdefault(uid, {}); users[uid]["sub"] = ...; users[uid]["await_key"] = False
sub_saved(l_users, uid, key, t) ==
  LET u0 == IF uid \in DOMAIN l_users THEN l_users ELSE Put(l_users, uid, StubUser)
  IN [u0 EXCEPT ![uid].sub = Some([type |-> "monthly",
                                   expire_at |-> ExpAt(strftime(t + Days(DURATIONS_monthly))),
                                   key |-> key]),
                ![uid].await_key = FALSE]

\* maybe_activate_key, up to the call of activate_key_for_user
K_begin(t, c, text) ==
  LET u1 == ensure_user(users, c)
      key == normalize_key(text)
  IN /\ threads[t].pc = "idle"
     /\ users' = u1
     /\ IF ~u1[str(c)].await_key
        THEN Goto(t, [threads[t] EXCEPT !.pc = "refused", !.uid = str(c)]) /\ Done("text", "ignored")
        ELSE IF ~KEY_RE_match(key)
        THEN Goto(t, [threads[t] EXCEPT !.pc = "refused", !.uid = str(c)]) /\ Done("text", "key_invalid")
        ELSE Goto(t, [threads[t] EXCEPT !.pc = "k_loadkeys", !.uid = str(c), !.key = key])
             /\ Done("text", "")
     /\ UNCHANGED <<keys, withdraw_requests, withdraw_log, now, initial, probe, settings, pending, store, web>>

\* keys = _key_store(); the two early returns of activate_key_for_user
K_loadkeys(t) ==
  LET th == threads[t] IN
  /\ th.pc = "k_loadkeys"
  /\ IF th.key \notin DOMAIN keys
     THEN Goto(t, [th EXCEPT !.pc = "refused"]) /\ Done("text", "key_invalid")
     ELSE IF keys[th.key].used_by # None
     THEN Goto(t, [th EXCEPT !.pc = "refused"]) /\ Done("text", "key_used")
     ELSE Goto(t, [th EXCEPT !.pc = "k_loadusers", !.l_keys = keys]) /\ Done("text", "")
  /\ UNCHANGED <<users, keys, withdraw_requests, withdraw_log, now, initial, probe, settings, pending, store, web>>

\* users = load_json("users.json")
K_loadusers(t) ==
  LET th == threads[t] IN
  /\ th.pc = "k_loadusers"
  /\ Goto(t, [th EXCEPT !.pc = "k_savekeys", !.l_users = users])
  /\ Done("text", "")
  /\ UNCHANGED <<users, keys, withdraw_requests, withdraw_log, now, initial, probe, settings, pending, store, web>>

\* _save_keys(keys)
K_savekeys(t) ==
  LET th == threads[t] IN
  /\ th.pc = "k_savekeys"
  /\ keys' = keys_marked(th.l_keys, th.key, th.uid)
  /\ Goto(t, [th EXCEPT !.pc = "k_saveusers", !.l_keys = EmptyDoc])
  /\ Done("text", "")
  /\ UNCHANGED <<users, withdraw_requests, withdraw_log, now, initial, probe, settings, pending, store, web>>

\* save_json("users.json", users)
K_saveusers(t) ==
  LET th == threads[t] IN
  /\ th.pc = "k_saveusers"
  /\ users' = sub_saved(th.l_users, th.uid, th.key, now)
  /\ Goto(t, [th EXCEPT !.pc = "k_done", !.l_users = EmptyDoc])
  /\ Done("text", "key_ok")
  /\ UNCHANGED <<keys, withdraw_requests, withdraw_log, now, initial, probe, settings, pending, store, web>>

\* callbacks, data = "wden_<rid>": the admin gate, the load of
\* withdraw_requests.json and the pending guard
D_begin(t, c, rid) ==
  LET u1 == ensure_user(users, c) IN
  /\ threads[t].pc = "idle"
  /\ users' = u1
  /\ IF ~is_admin(u1, str(c))
     THEN Goto(t, [threads[t] EXCEPT !.pc = "refused", !.uid = str(c)]) /\ Done("wden", "not_admin")
     ELSE IF ~is_pending(withdraw_requests, rid)
     THEN Goto(t, [threads[t] EXCEPT !.pc = "refused", !.uid = str(c)])
          /\ Done("wden", "already_processed")
     ELSE Goto(t, [threads[t] EXCEPT !.pc = "d_credit", !.uid = str(c), !.key = rid,
                                     !.l_wr = withdraw_requests])
          /\ Done("wden", "")
  /\ UNCHANGED <<keys, withdraw_requests, withdraw_log, now, initial, probe, settings, pending, store, web>>

\* users = load_json("users.json"); the owner is credited; save_json
D_credit(t) ==
  LET th == threads[t]
      req == th.l_wr[th.key]
      u0 == IF req.user_id \in DOMAIN users THEN users ELSE Put(users, req.user_id, StubUser)
  IN /\ th.pc = "d_credit"
     /\ users' = credit_saved(u0, req.user_id, Cents(req.amount))
     /\ Goto(t, [th EXCEPT !.pc = "d_log"])
     /\ Done("wden", "")
     /\ UNCHANGED <<keys, withdraw_requests, withdraw_log, now, initial, probe, settings, pending, store, web>>

\* req["status"] = "denied"; the log is loaded, extended and saved
D_log(t) ==
  LET th == threads[t]
      req == [th.l_wr[th.key] EXCEPT !.status = "denied"]
  IN /\ th.pc = "d_log"
     /\ withdraw_log' = log_append(withdraw_log, req, "denied")
     /\ Goto(t, [th EXCEPT !.pc = "d_save"])
     /\ Done("wden", "")
     /\ UNCHANGED <<users, keys, withdraw_requests, now, initial, probe, settings, pending, store, web>>

\* save_json("withdraw_requests.json", withdraw_requests)
D_save(t) ==
  LET th == threads[t] IN
  /\ th.pc = "d_save"
  /\ withdraw_requests' = [th.l_wr EXCEPT ![th.key].status = "denied"]
  /\ Goto(t, [th EXCEPT !.pc = "d_done", !.l_wr = EmptyDoc])
  /\ Done("wden", "denied")
  /\ UNCHANGED <<users, keys, withdraw_log, now, initial, probe, settings, pending, store, web>>

\* positions at which a thread is not inside a handler
Resting == {"idle", "refused", "crashed", "w_done", "a_done", "k_done", "d_done"}
\* no handler is running: the next update is handled alone
Quiet == \A t \in THREADS : threads[t].pc \in Resting
\* the process dies inside a handler: what was saved stays, the rest is lost
Crash(t) ==
  /\ threads[t].pc \notin Resting
  /\ Goto(t, [IdleThread EXCEPT !.pc = "crashed", !.uid = threads[t].uid])
  /\ Done("crash", "")
  /\ UNCHANGED <<users, keys, withdraw_requests, withdraw_log, now, initial, probe, settings, pending, store, web>>

\* the handlers that write balances, with the amounts an admin may type
BalanceAmounts == {"abc", "nan", "0", "1"}
NextBalances ==
  \/ \E c \in CHAT_IDS, tok \in WithdrawTokens : cb_withdraw(c, tok)
  \/ \E c \in CHAT_IDS, rid \in RidTokens : cb_wapp(c, rid)
  \/ \E c \in CHAT_IDS, rid \in RidTokens : cb_wden(c, rid)
  \/ \E c \in CHAT_IDS, target \in UIDS, tok \in BalanceAmounts : cmd_addbal(c, target, tok)
  \/ \E c \in CHAT_IDS, target \in UIDS, tok \in BalanceAmounts : cmd_takebal(c, target, tok)
  \/ \E c \in CHAT_IDS, target \in UIDS, tok \in BalanceAmounts : cmd_setbal(c, target, tok)

SpecBalances == Init /\ [][NextBalances]_vars

\* /takebal among credits, NaN balances and pending withdrawals
TakeAmounts == {"abc", "nan", "1"}
NextTake ==
  \/ \E c \in CHAT_IDS : cb_withdraw(c, "1")
  \/ \E c \in CHAT_IDS, target \in UIDS : cmd_addbal(c, target, "1")
  \/ \E c \in CHAT_IDS, target \in UIDS : cmd_setbal(c, target, "nan")
  \/ \E c \in CHAT_IDS, target \in UIDS, tok \in TakeAmounts : cmd_takebal(c, target, tok)

SpecTake == Init /\ [][NextTake]_vars

\* the life of a withdrawal request, with /addbal to fund the accounts
LedgerAmounts == {"abc", "1"}
NextLedger ==
  \/ \E c \in CHAT_IDS, tok \in WithdrawTokens : cb_withdraw(c, tok)
  \/ \E c \in CHAT_IDS, rid \in RidTokens : cb_wapp(c, rid)
  \/ \E c \in CHAT_IDS, rid \in RidTokens : cb_wden(c, rid)
  \/ \E c \in CHAT_IDS, rid \in RidTokens : cb_cancel(c, rid)
  \/ \E c \in CHAT_IDS, target \in UIDS, tok \in LedgerAmounts : cmd_addbal(c, target, tok)

SpecLedger == Init /\ [][NextLedger]_vars

\* the request ids in the order the document holds them: requests are only
\* ever added, under str(len + 1)
ids_in_order(wr) == [k \in 1..Cardinality(DOMAIN wr) |-> str(k)]
\* the loop of withdraw_status: one cancel button for each pending request of uid
status_buttons(wr, uid) ==
  LET mine(rid) == wr[rid].user_id = uid /\ wr[rid].status = "pending"
  IN SelectSeq(ids_in_order(wr), mine)
\* what the last listing handler showed: <<handler, caller, <<kind, request ids>>>>
NoListing == <<"", "", <<"", <<>>>>>>
\* callbacks, data = "withdraw_status"
cb_withdraw_status(c) ==
  /\ users' = ensure_user(users, c)
  /\ probe' = <<"withdraw_status", str(c), <<"buttons", status_buttons(withdraw_requests, str(c))>>>>
  /\ Done("withdraw_status", "")
  /\ UNCHANGED <<keys, withdraw_requests, withdraw_log, now, initial, threads, settings, pending, store, web>>
\* "/wlist": the admin branch calls _wlist_send_page, a name the module never
\* defines, so the call raises NameError and nothing is sent
cmd_wlist(c) ==
  LET uid == str(c)
      u1 == ensure_user(users, c)
  IN /\ users' = u1
     /\ probe' = <<"wlist", uid, <<IF is_admin(u1, uid) THEN "NameError" ELSE "admin_only", <<>>>>>>
     /\ Done("wlist", "")
     /\ UNCHANGED <<keys, withdraw_requests, withdraw_log, now, initial, threads, settings, pending, store, web>>

InitListing ==
  /\ users = EmptyDoc
  /\ keys = EmptyDoc
  /\ withdraw_requests = EmptyDoc
  /\ withdraw_log = EmptyDoc
  /\ now = 0
  /\ last = ""
  /\ initial = [u \in UIDS |-> Num(0)]
  /\ probe = NoListing
  /\ threads = NoThreads
  /\ settings = NoSettings
  /\ pending = NoPending
  /\ store = NoStore
  /\ web = NoWeb
\* requests of both users in every status, and the two listings
NextListing ==
  \/ \E c \in CHAT_IDS : cb_withdraw(c, "1")
  \/ \E c \in CHAT_IDS, rid \in RidTokens : cb_wapp(c, rid)
  \/ \E c \in CHAT_IDS, rid \in RidTokens : cb_wden(c, rid)
  \/ \E c \in CHAT_IDS, target \in UIDS : cmd_addbal(c, target, "1")
  \/ \E c \in CHAT_IDS : cb_withdraw_status(c)
  \/ \E c \in CHAT_IDS : cmd_wlist(c)

SpecListing == InitListing /\ [][NextListing]_vars

\* both ways into create_withdraw_request, with /gensub and /addbal to open them
NextGate ==
  \/ \E c \in CHAT_IDS, tok \in WithdrawTokens : cmd_withdraw(c, tok)
  \/ \E c \in CHAT_IDS, tok \in WithdrawTokens : cb_withdraw(c, tok)
  \/ \E c \in CHAT_IDS, target \in UIDS : cmd_gensub(c, target, "monthly", "")
  \/ \E c \in CHAT_IDS, target \in UIDS : cmd_addbal(c, target, "1")

SpecGate == Init /\ [][NextGate]_vars

\* the key and subscription handlers
NextKeys ==
  \/ Tick
  \/ \E c \in CHAT_IDS : cmd_start(c)
  \/ \E c \in CHAT_IDS, count \in 0..MaxCount : cmd_genkey(c, count)
  \/ \E c \in CHAT_IDS, key \in KEYS : cmd_delkey(c, key)
  \/ \E c \in CHAT_IDS, text \in KeyTexts : maybe_activate_key(c, text)

SpecKeys == Init /\ [][NextKeys]_vars

\* the loop of generate_keys, fed with the values _rand_key yields: ks is the
\* store so far, draws the values still to come, n the keys still to add;
\* left > 0 reports that the draws ran out before the loop had finished
RECURSIVE draw_keys_unchecked(_, _, _)
\* variant: a drawn value is stored without looking at the store
draw_keys_unchecked(ks, draws, n) ==
  IF n = 0 \/ draws = <<>> THEN [keys |-> ks, left |-> n, rest |-> draws]
  ELSE draw_keys_unchecked(Put(ks, Head(draws), [type |-> "monthly", used_by |-> None]),
                           Tail(draws), n - 1)
RECURSIVE draw_keys(_, _, _)
draw_keys(ks, draws, n) ==
  IF n = 0 \/ draws = <<>> THEN [keys |-> ks, left |-> n, rest |-> draws]
  ELSE IF Head(draws) \in DOMAIN ks THEN draw_keys(ks, Tail(draws), n)
  ELSE draw_keys(Put(ks, Head(draws), [type |-> "monthly", used_by |-> None]),
                 Tail(draws), n - 1)

\* the values the generator may yield during one call, repeats included
DrawSeqs == UNION {[1..n -> KEYS] : n \in 1..MaxDraws}
GenCounts == 1..MaxGen
\* "/genkey monthly <count>" with the generator yielding exactly `draws`
cmd_genkey_drawing(c, count, draws) ==
  LET uid == str(c)
      u1 == ensure_user(users, c)
      r == draw_keys(keys, draws, count)
  IN /\ users' = u1
     /\ IF ~is_admin(u1, uid)
        THEN draws = <<>> /\ Done("genkey", "admin_only") /\ UNCHANGED keys
        ELSE /\ r.left = 0 /\ r.rest = <<>>
             /\ keys' = r.keys
             /\ Done("genkey", IF Len(draws) > count THEN "genkey_redrawn" ELSE "ok")
     /\ UNCHANGED <<withdraw_requests, withdraw_log, now, initial, probe, threads, settings, pending, store, web>>

\* key generation with colliding draws, and the activations that use keys up
NextGen ==
  \/ \E c \in CHAT_IDS : cmd_start(c)
  \/ \E c \in CHAT_IDS, count \in GenCounts, draws \in DrawSeqs \cup {<<>>} :
       cmd_genkey_drawing(c, count, draws)
  \/ \E c \in CHAT_IDS, key \in KEYS : cmd_delkey(c, key)
  \/ \E c \in CHAT_IDS, text \in KEYS : maybe_activate_key(c, text)

SpecGen == Init /\ [][NextGen]_vars

\* user records of every age: the store may hold records written while
\* ADMIN_ID named another account, so a stored role need not match ADMIN_IDS
StoredRoles == {"user", "admin"}
InitUsers ==
  /\ users \in {EmptyDoc} \cup {Put(EmptyDoc, u, NewUserAt(r, 0)) : u \in UIDS, r \in StoredRoles}
  /\ keys = EmptyDoc
  /\ withdraw_requests = EmptyDoc
  /\ withdraw_log = EmptyDoc
  /\ now = 0
  /\ last = ""
  /\ initial = [u \in UIDS |-> Num(0)]
  /\ probe = ""
  /\ threads = NoThreads
  /\ settings = NoSettings
  /\ pending = NoPending
  /\ store = NoStore
  /\ web = NoWeb

NextUsers ==
  \/ Tick
  \/ \E c \in CHAT_IDS : cb_cancel(c, "1")
  \/ \E c \in CHAT_IDS, code \in LangCodes : cb_set_lang(c, code)
  \/ \E c \in CHAT_IDS, target \in UIDS : cmd_addbal(c, target, "1")
  \/ \E c \in CHAT_IDS, target \in UIDS : cmd_gensub(c, target, "monthly", "")

SpecUsers == InitUsers /\ [][NextUsers]_vars

\* db_kv.get_json(key), default None
db_get_json(rows, key) == IF key \in DOMAIN rows THEN json_loads(rows[key]) ELSE PyNone
\* the file branch of load_json
file_get_json(files, name) ==
  IF path_of(name) \in DOMAIN files THEN json_loads(files[path_of(name)]) ELSE PyNone

save_json(name, data) ==
  /\ store' = IF store.use_db /\ store.db_up
              THEN [store EXCEPT !.rows = Put(@, name, json_dumps(data)),
                                 !.saved = Some([name |-> name, data |-> data]), !.got = None]
              ELSE [store EXCEPT !.files = Put(@, path_of(name), json_dumps(data)),
                                 !.saved = Some([name |-> name, data |-> data]), !.got = None]
  /\ UNCHANGED <<users, keys, withdraw_requests, withdraw_log, now, last, initial, probe,
                 threads, settings, pending, web>>

load_json(name) ==
  /\ store' = [store EXCEPT !.got =
                 Some(IF store.use_db /\ store.db_up THEN db_get_json(store.rows, name)
                      ELSE file_get_json(store.files, name))]
  /\ UNCHANGED <<users, keys, withdraw_requests, withdraw_log, now, last, initial, probe,
                 threads, settings, pending, web>>

\* the storage layer alone: file backend, database backend, and database
\* backend with the database unreachable from the start
InitStore ==
  /\ users = EmptyDoc
  /\ keys = EmptyDoc
  /\ withdraw_requests = EmptyDoc
  /\ withdraw_log = EmptyDoc
  /\ now = 0
  /\ last = ""
  /\ initial = [u \in UIDS |-> Num(0)]
  /\ probe = ""
  /\ threads = NoThreads
  /\ settings = NoSettings
  /\ pending = NoPending
  /\ store \in {[NoStore EXCEPT !.use_db = u, !.db_up = d] :
                  u \in BOOLEAN, d \in BOOLEAN}
  /\ web = NoWeb
NextStore ==
  \/ \E name \in StoreNames, data \in StoreValues : save_json(name, data)
  \/ \E name \in StoreNames : load_json(name)

SpecStore == InitStore /\ [][NextStore]_vars

\* the database stops answering, or answers again: from then on db_get_json
\* and db_set_json raise, resp. succeed
db_flip ==
  /\ store.use_db
  /\ store' = [store EXCEPT !.db_up = ~@]
  /\ UNCHANGED <<users, keys, withdraw_requests, withdraw_log, now, last, initial, probe,
                 threads, settings, pending, web>>

\* the storage layer with a database that fails and recovers at any time
NextFlaky ==
  \/ \E name \in StoreNames, data \in StoreValues : save_json(name, data)
  \/ \E name \in StoreNames : load_json(name)
  \/ db_flip

SpecFlaky == InitStore /\ [][NextFlaky]_vars

\* paths handed to _atomic_write_json: a data file and SETTINGS_FILE
WritePaths == {"users.json", "settings.json"}
\* what a file holds after open(., "w") and after a first part of the text
EmptyFile == <<"empty", 0>>
PartFile == <<"part", 0>>
\* variant: the text is written to the target itself
tmp_in_place(path) == path
\* tmp = path + ".tmp"
tmp_of(path) == path \o ".tmp"
StoreQuiet ==
  UNCHANGED <<users, keys, withdraw_requests, withdraw_log, now, last, initial, probe,
              threads, settings, pending, web>>

\* d = json.dumps(data); open(tmp, "w") creates or empties the temporary file
aw_open(path, data) ==
  /\ store.w.pc = "idle"
  /\ store' = [store EXCEPT !.files = Put(@, tmp_of(path), EmptyFile),
                            !.w = [pc |-> "opened", path |-> path, text |-> json_dumps(data)]]
  /\ StoreQuiet
\* f.write(d) reaches the file in parts
aw_write_part ==
  /\ store.w.pc = "opened"
  /\ store' = [store EXCEPT !.files = Put(@, tmp_of(store.w.path), PartFile), !.w.pc = "part"]
  /\ StoreQuiet
\* ... and the file is closed with the whole text in it
aw_write_rest ==
  /\ store.w.pc \in {"opened", "part"}
  /\ store' = [store EXCEPT !.files = Put(@, tmp_of(store.w.path), store.w.text),
                            !.w.pc = "written"]
  /\ StoreQuiet
\* os.replace(tmp, path): the target becomes the temporary file, in one step
aw_replace ==
  LET t == tmp_of(store.w.path)
      moved == Put(store.files, store.w.path, store.files[t])
  IN /\ store.w.pc = "written"
     /\ store' = [store EXCEPT !.files = IF t = store.w.path THEN moved ELSE Del(moved, t),
                               !.w = NoWrite]
     /\ StoreQuiet
\* the process dies inside _atomic_write_json: the files stay as they are
aw_crash ==
  /\ store.w.pc # "idle"
  /\ store' = [store EXCEPT !.w = NoWrite]
  /\ StoreQuiet

\* one writer calling _atomic_write_json again and again, with crashes
NextAtomic ==
  \/ \E path \in WritePaths, data \in StoreValues : aw_open(path, data)
  \/ aw_write_part
  \/ aw_write_rest
  \/ aw_replace
  \/ aw_crash

SpecAtomic == InitStore /\ [][NextAtomic]_vars

\* --------------------------------------------------- pending admin slots
\* texts of the messages of the model: commands, and plain texts
Long33 == "abcdefghijklmnopqrstuvwxyz0123456"
SlotTexts == {"/start", "-", " ", " vip ", Long33, "2", "9"}
CommandTexts == {"/addbal 2 1", "/takebal 2 1", "/setbal 2 1", "-"}
\* text.strip()
strip(text) == CASE text = " " -> "" [] text = " vip " -> "vip" [] OTHER -> text
\* val[:32]
first32(val) == IF val = Long33 THEN "abcdefghijklmnopqrstuvwxyz012345" ELSE val
\* txt.isdigit()
isdigit(txt) == txt \in {"2", "9"}
\* m.text.strip().startswith("/")
is_command(text) == text \in {"/start", "/addbal 2 1", "/takebal 2 1", "/setbal 2 1"}

\* variant: the text is stored as typed
slot_value_whole(text) == text

\* the value on_admin_label / on_admin_country store for the message text
slot_value(text) ==
  LET val == strip(text) IN IF val = "-" \/ val = "" THEN NoneText ELSE first32(val)

\* message handler with filter m.from_user.id in _pending_label
on_admin_label(c, text) ==
  LET sid == pending.label[c]
      u1 == ensure_user(users, c)
      u2 == IF sid \in DOMAIN u1 THEN u1 ELSE Put(u1, sid, StubUser)
  IN /\ pending' = [pending EXCEPT !.label = Del(@, c)]
     /\ users' = [u2 EXCEPT ![sid].label = slot_value(text)]
     /\ Done("label", "label_set_ok")
     /\ UNCHANGED <<keys, withdraw_requests, withdraw_log, now, initial, probe, threads, settings, store, web>>

\* message handler with filter m.from_user.id in _pending_country
on_admin_country(c, text) ==
  LET sid == pending.country[c]
      u1 == ensure_user(users, c)
      u2 == IF sid \in DOMAIN u1 THEN u1 ELSE Put(u1, sid, StubUser)
  IN /\ pending' = [pending EXCEPT !.country = Del(@, c)]
     /\ users' = [u2 EXCEPT ![sid].country = slot_value(text)]
     /\ Done("country", "country_set_ok")
     /\ UNCHANGED <<keys, withdraw_requests, withdraw_log, now, initial, probe, threads, settings, store, web>>

\* message handler with filter m.from_user.id in _pending_player_search
on_players_search(c, text) ==
  LET u1 == ensure_user(users, c)
      txt == strip(text)
  IN /\ IF txt = "-"
        THEN /\ pending' = [pending EXCEPT !.search = Del(@, c)]
             /\ users' = list_user_ids(u1)
             /\ Done("search", "page")
        ELSE /\ UNCHANGED pending
             /\ users' = u1
             /\ Done("search", IF isdigit(txt) /\ txt \in DOMAIN u1 THEN "view"
                               ELSE "players_search_not_found")
     /\ UNCHANGED <<keys, withdraw_requests, withdraw_log, now, initial, probe, threads, settings, store, web>>

\* a text message from chat c: the handlers are tried in the order of their
\* registration and the first whose filter matches runs
on_message(c, text) ==
  IF text = "/start" THEN cmd_start(c)
  ELSE IF c \in DOMAIN pending.label THEN on_admin_label(c, text)
  ELSE IF c \in DOMAIN pending.country THEN on_admin_country(c, text)
  ELSE IF c \in DOMAIN pending.search THEN on_players_search(c, text)
  ELSE IF text = "/addbal 2 1" THEN cmd_addbal(c, "2", "1")
  ELSE IF text = "/takebal 2 1" THEN cmd_takebal(c, "2", "1")
  ELSE IF text = "/setbal 2 1" THEN cmd_setbal(c, "2", "1")
  ELSE maybe_activate_key(c, text)

\* the players buttons that open a slot, and the messages that follow
NextSlots ==
  \/ \E c \in CHAT_IDS : cb_player_label(c, "2")
  \/ \E c \in CHAT_IDS : cb_player_country(c, "2")
  \/ \E c \in CHAT_IDS : cb_players_search(c)
  \/ \E c \in CHAT_IDS, text \in SlotTexts : on_message(c, text)

SpecSlots == Init /\ [][NextSlots]_vars

\* the same buttons, followed by admin commands
NextSlotCommands ==
  \/ \E c \in CHAT_IDS : cb_player_label(c, "2")
  \/ \E c \in CHAT_IDS : cb_player_country(c, "2")
  \/ \E c \in CHAT_IDS : cb_players_search(c)
  \/ \E c \in CHAT_IDS, text \in CommandTexts : on_message(c, text)

SpecSlotCommands == Init /\ [][NextSlotCommands]_vars

\* two users who were asked for a key, and the keys an admin has generated
InitAwaiting ==
  /\ users = [u \in UIDS |->
                [NewUserAt(IF int_of_uid(u) \in ADMIN_IDS THEN "admin" ELSE "user", 0)
                   EXCEPT !.await_key = TRUE]]
  /\ keys = [k \in KEYS |-> [type |-> "monthly", used_by |-> None]]
  /\ withdraw_requests = EmptyDoc
  /\ withdraw_log = EmptyDoc
  /\ now = 0
  /\ last = ""
  /\ initial = [u \in UIDS |-> Num(0)]
  /\ probe = ""
  /\ threads = NoThreads
  /\ settings = NoSettings
  /\ pending = NoPending
  /\ store = NoStore
  /\ web = NoWeb

\* two key messages handled at the same time
NextKeyRace ==
  \/ \E t \in THREADS, c \in CHAT_IDS, text \in KeyTexts : K_begin(t, c, text)
  \/ \E t \in THREADS : K_loadkeys(t)
  \/ \E t \in THREADS : K_loadusers(t)
  \/ \E t \in THREADS : K_savekeys(t)
  \/ \E t \in THREADS : K_saveusers(t)

SpecKeyRace == InitAwaiting /\ [][NextKeyRace]_vars

\* ----------------------------------------------------------------- webhook
\* variant: an exception reaches the framework, which answers 500
webhook_status_raising(raised) == IF raised THEN 500 ELSE 200

\* every path of webhook ends in return "OK", 200
webhook_status(raised) == 200

\* request bodies: nothing, bytes that are not UTF-8, text that is no update,
\* and callback updates from chat c with the given data
WebCodes == LANGS \cup {"xx"}
WebPages == {"1", "x"}
WebBodies ==
  {[kind |-> k, c |-> 0, arg |-> ""] : k \in {"empty", "bad_utf8", "not_json"}}
    \cup {[kind |-> "set_lang", c |-> c, arg |-> code] : c \in CHAT_IDS, code \in WebCodes}
    \cup {[kind |-> "players:page", c |-> c, arg |-> page] : c \in CHAT_IDS, page \in WebPages}

\* what process_new_updates runs for the body, and whether it raises
webhook_dispatch(raw) ==
  IF raw.kind = "set_lang" THEN cb_set_lang_run(raw.c, raw.arg)
  ELSE cb_players_page_run(raw.c, raw.arg)
webhook_raises(raw) ==
  \/ raw.kind \in {"bad_utf8", "not_json"}
  \/ raw.kind = "players:page" /\ players_page_raises(users, raw.c, raw.arg)

webhook(method, raw) ==
  IF method = "GET" \/ raw.kind = "empty"
  THEN /\ web' = [web EXCEPT !.status = 200]
       /\ UNCHANGED <<users, keys, withdraw_requests, withdraw_log, now, last, initial, probe,
                      threads, settings, pending, store>>
  ELSE IF raw.kind \in {"bad_utf8", "not_json"}
  THEN /\ web' = [status |-> webhook_status(TRUE), failed |-> TRUE]
       /\ UNCHANGED <<users, keys, withdraw_requests, withdraw_log, now, last, initial, probe,
                      threads, settings, pending, store>>
  ELSE /\ webhook_dispatch(raw)
       /\ web' = [status |-> webhook_status(webhook_raises(raw)),
                  failed |-> web.failed \/ webhook_raises(raw)]

WebMethods == {"GET", "POST"}
NextWeb == \E method \in WebMethods, raw \in WebBodies : webhook(method, raw)

SpecWeb == Init /\ [][NextWeb]_vars

\* subscriptions given by key and by /gensub, removed by /delsub, as time passes
NextSubs ==
  \/ Tick
  \/ \E c \in CHAT_IDS : cmd_start(c)
  \/ \E c \in CHAT_IDS : cmd_genkey(c, 1)
  \/ \E c \in CHAT_IDS, text \in KEYS : maybe_activate_key(c, text)
  \/ \E c \in CHAT_IDS : cmd_addbal(c, "2", "1")
  \/ \E c \in CHAT_IDS : cmd_gensub(c, "2", "monthly", "")
  \/ \E c \in CHAT_IDS, target \in UIDS : cmd_delsub(c, target)

SpecSubs == Init /\ [][NextSubs]_vars

\* /gensub in both modes, with time passing between the commands
GensubModes == {"monthly", "+days", "weekly"}
DaysTokens == {"abc", "-1", "1"}
SubWithin(uid) ==
  IF uid \notin DOMAIN users THEN TRUE
  ELSE IF users[uid].sub = None THEN TRUE
  ELSE LET secs == users[uid].sub[1].expire_at.secs
       IN 0 <= secs /\ secs <= MaxSubDays * SecondsPerDay
NextExtend ==
  \/ Tick
  \/ \E c \in CHAT_IDS, mode \in GensubModes, days \in DaysTokens :
       SubWithin("2") /\ cmd_gensub(c, "2", mode, days)

SpecExtend == Init /\ [][NextExtend]_vars

\* the admin-gated handlers, called by the admin account and by the other
\* account, on a store that already holds a subscription, a used key and a
\* pending request; the other account is unknown, or stored as admin by an
\* earlier configuration
InitGated ==
  /\ users \in
       {Put(EmptyDoc, "1",
            [NewUserAt("admin", 0) EXCEPT
               !.balance = Num(100),
               !.sub = Some([type |-> "monthly",
                             expire_at |-> ExpAt(DURATIONS_monthly * SecondsPerDay),
                             key |-> "MO-AAAA-AAAA-AAAA"])])}
       \cup {Put(Put(EmptyDoc, "1",
                     [NewUserAt("admin", 0) EXCEPT
                        !.balance = Num(100),
                        !.sub = Some([type |-> "monthly",
                                      expire_at |-> ExpAt(DURATIONS_monthly * SecondsPerDay),
                                      key |-> "MO-AAAA-AAAA-AAAA"])]),
                 "2", NewUserAt("admin", 0))}
  /\ keys = Put(EmptyDoc, "MO-AAAA-AAAA-AAAA", [type |-> "monthly", used_by |-> Some("1")])
  /\ withdraw_requests = Put(EmptyDoc, "1", [user_id |-> "1", amount |-> 1, status |-> "pending"])
  /\ withdraw_log = EmptyDoc
  /\ now = 0
  /\ last = ""
  /\ initial = [u \in UIDS |-> Num(0)]
  /\ probe = ""
  /\ threads = NoThreads
  /\ settings = NoSettings
  /\ pending = NoPending
  /\ store = NoStore
  /\ web = NoWeb

\* the user the admin commands and the players buttons of the model aim at
GatedTargets == {"2"}
GatedAction(c) ==
  \/ \E target \in GatedTargets : cmd_addbal(c, target, "1")
  \/ \E target \in GatedTargets : cmd_takebal(c, target, "1")
  \/ \E target \in GatedTargets : cmd_setbal(c, target, "1")
  \/ \E target \in GatedTargets : cmd_gensub(c, target, "monthly", "")
  \/ \E target \in GatedTargets : cmd_delsub(c, target)
  \/ cmd_genkey(c, 1)
  \/ \E key \in KEYS : cmd_delkey(c, key)
  \/ \E url \in UrlTexts : cmd_setwebsite(c, url)
  \/ cmd_delwebsite(c)
  \/ cb_wapp(c, "1")
  \/ cb_wden(c, "1")
  \/ cmd_players(c)
  \/ cb_players_page(c)
  \/ \E sid \in GatedTargets : cb_player_view(c, sid)
  \/ \E sid \in GatedTargets : cb_player_label(c, sid)
  \/ \E sid \in GatedTargets : cb_player_country(c, sid)
  \/ cb_players_search(c)
NextGated == \E c \in CHAT_IDS : GatedAction(c)

SpecGated == InitGated /\ [][NextGated]_vars

\* withdrawals only, from funded accounts: no admin balance command
InitFunded ==
  /\ users \in [UIDS -> {[NewUserAt(IF int_of_uid(u) \in ADMIN_IDS THEN "admin" ELSE "user", 0)
                            EXCEPT !.balance = Num(100 * d)] : u \in UIDS, d \in 0..(MaxBal \div 100)}]
  /\ \A u \in UIDS : users[u].role = (IF int_of_uid(u) \in ADMIN_IDS THEN "admin" ELSE "user")
  /\ keys = EmptyDoc
  /\ withdraw_requests = EmptyDoc
  /\ withdraw_log = EmptyDoc
  /\ now = 0
  /\ last = ""
  /\ initial = [u \in UIDS |-> users[u].balance]
  /\ probe = ""
  /\ threads = NoThreads
  /\ settings = NoSettings
  /\ pending = NoPending
  /\ store = NoStore
  /\ web = NoWeb

NextConserve ==
  \/ \E c \in CHAT_IDS, tok \in WithdrawTokens : cb_withdraw(c, tok)
  \/ \E c \in CHAT_IDS, rid \in RidTokens : cb_wapp(c, rid)
  \/ \E c \in CHAT_IDS, rid \in RidTokens : cb_wden(c, rid)

SpecConserve == InitFunded /\ [][NextConserve]_vars

\* two updates handled at the same time, from funded accounts
RaceAmounts == {"abc", "1"}
NextRace ==
  \/ \E t \in THREADS, c \in CHAT_IDS, tok \in WithdrawTokens : W_begin(t, c, tok)
  \/ \E t \in THREADS : W_load(t)
  \/ \E t \in THREADS : W_request(t)
  \/ \E t \in THREADS : W_reqsave(t)
  \/ \E t \in THREADS : W_debit(t)
  \/ \E t \in THREADS, c \in CHAT_IDS, target \in UIDS, tok \in RaceAmounts : A_begin(t, c, target, tok)
  \/ \E t \in THREADS : A_load(t)
  \/ \E t \in THREADS : A_save(t)

SpecRace == InitFunded /\ [][NextRace]_vars

\* withdrawal creations and denials run one at a time, any of which may be
\* cut short by a crash
NextCrashCreate ==
  \/ \E t \in THREADS, c \in CHAT_IDS, tok \in WithdrawTokens : Quiet /\ W_begin(t, c, tok)
  \/ \E t \in THREADS : W_load(t)
  \/ \E t \in THREADS : W_request(t)
  \/ \E t \in THREADS : W_reqsave(t)
  \/ \E t \in THREADS : W_debit(t)
  \/ \E t \in THREADS : Crash(t)

SpecCrashCreate == InitFunded /\ [][NextCrashCreate]_vars

\* user 2 started with `initial` and has one pending request of 1, already debited
InitRequested ==
  /\ users \in {[u \in UIDS |->
                   [NewUserAt(IF int_of_uid(u) \in ADMIN_IDS THEN "admin" ELSE "user", 0)
                      EXCEPT !.balance = Num(IF u = "2" THEN 100 * d ELSE 0)]] :
                  d \in 0..((MaxBal \div 100) - 1)}
  /\ keys = EmptyDoc
  /\ withdraw_requests = Put(EmptyDoc, "1", [user_id |-> "2", amount |-> 1, status |-> "pending"])
  /\ withdraw_log = EmptyDoc
  /\ now = 0
  /\ last = ""
  /\ initial = [u \in UIDS |-> IF u = "2" THEN FAdd(users[u].balance, Cents(1)) ELSE users[u].balance]
  /\ probe = ""
  /\ threads = NoThreads
  /\ settings = NoSettings
  /\ pending = NoPending
  /\ store = NoStore
  /\ web = NoWeb

NextCrashDeny ==
  \/ \E t \in THREADS, c \in CHAT_IDS, rid \in RidTokens : Quiet /\ D_begin(t, c, rid)
  \/ \E t \in THREADS : D_credit(t)
  \/ \E t \in THREADS : D_log(t)
  \/ \E t \in THREADS : D_save(t)
  \/ \E t \in THREADS : Crash(t)

SpecCrashDeny == InitRequested /\ [][NextCrashDeny]_vars

\* key activations run one at a time, any of which may be cut short by a crash
NextCrashKey ==
  \/ \E t \in THREADS, c \in CHAT_IDS, text \in KeyTexts : Quiet /\ K_begin(t, c, text)
  \/ \E t \in THREADS : K_loadkeys(t)
  \/ \E t \in THREADS : K_loadusers(t)
  \/ \E t \in THREADS : K_savekeys(t)
  \/ \E t \in THREADS : K_saveusers(t)
  \/ \E t \in THREADS : Crash(t)

SpecCrashKey == InitAwaiting /\ [][NextCrashKey]_vars

\* is_sub_active on stored subscriptions of every shape, at every instant
ProbeSubs ==
  {None} \cup {Some([type |-> "monthly", expire_at |-> e, key |-> "MANUAL"]) :
                 e \in {ExpNone, ExpBad} \cup {ExpAt(x) : x \in 0..MaxProbeSecs}}
InitProbe ==
  /\ users \in {EmptyDoc} \cup {Put(EmptyDoc, "2", [NewUserAt("user", 0) EXCEPT !.sub = x]) : x \in ProbeSubs}
  /\ keys = EmptyDoc
  /\ withdraw_requests = EmptyDoc
  /\ withdraw_log = EmptyDoc
  /\ now \in 0..((MaxProbeSecs + 1) * TicksPerSecond)
  /\ last = ""
  /\ initial = [u \in UIDS |-> Num(0)]
  /\ probe = ""
  /\ threads = NoThreads
  /\ settings = NoSettings
  /\ pending = NoPending
  /\ store = NoStore
  /\ web = NoWeb

ProbeSubActive ==
  /\ probe' = IF is_sub_active(users, "2", now) THEN "True" ELSE "False"
  /\ UNCHANGED <<users, keys, withdraw_requests, withdraw_log, now, last, initial, threads, settings, pending, store, web>>

SpecProbe == InitProbe /\ [][ProbeSubActive]_vars

\* " ".join(parts)
RECURSIVE join(_)
join(parts) ==
  IF Len(parts) = 1 THEN parts[1] ELSE parts[1] \o " " \o join(Tail(parts))
\* f"{s:02d}"
pad2(n) == IF n < 10 THEN "0" \o ToString(n) ELSE ToString(n)
\* variant: only the units that are not zero are shown
remaining_parts_nonzero(secs) ==
  LET d == secs \div 86400
      h == (secs % 86400) \div 3600
      m == (secs % 3600) \div 60
      sec == secs % 60
  IN (IF d # 0 THEN <<ToString(d) \o "d">> ELSE <<>>)
     \o (IF h # 0 THEN <<ToString(h) \o "h">> ELSE <<>>)
     \o (IF m # 0 THEN <<ToString(m) \o "m">> ELSE <<>>)
     \o <<pad2(sec) \o "s">>
\* the three divmod calls and the list parts
remaining_parts(secs) ==
  LET d == secs \div 86400
      h == (secs % 86400) \div 3600
      m == (secs % 3600) \div 60
      sec == secs % 60
  IN (IF d # 0 THEN <<ToString(d) \o "d">> ELSE <<>>)
     \o (IF h # 0 \/ d # 0 THEN <<ToString(h) \o "h">> ELSE <<>>)
     \o (IF m # 0 \/ h # 0 \/ d # 0 THEN <<ToString(m) \o "m">> ELSE <<>>)
     \o <<pad2(sec) \o "s">>
\* the sign returned for a subscription that does not expire
INFINITY == "<infinity>"
\* int(delta.total_seconds()) for delta = exp_dt - _now(): cut towards zero
whole_seconds(exp_secs, t) ==
  LET ticks == strptime(exp_secs) - t
  IN IF ticks >= 0 THEN ticks \div TicksPerSecond ELSE -((-ticks) \div TicksPerSecond)
sub_remaining_str(us, uid, t) ==
  IF uid \notin DOMAIN us THEN "0s"
  ELSE IF us[uid].sub = None THEN "0s"
  ELSE LET exp == us[uid].sub[1].expire_at IN
       IF exp.kind = "none" THEN INFINITY
       ELSE IF exp.kind = "bad" THEN "0s"
       ELSE IF whole_seconds(exp.secs, t) <= 0 THEN "0s"
       ELSE join(remaining_parts(whole_seconds(exp.secs, t)))

\* expiry instants around every unit boundary, in seconds
RemainSecs == {0, 1, 2, 10, 60, 61, 70, 3600, 3601, 3660, 3661, 7200,
               86400, 86401, 86460, 90000, 90061, 172800, 176461}
RemainSubs ==
  {None} \cup {Some([type |-> "monthly", expire_at |-> e, key |-> "MANUAL"]) :
                 e \in {ExpNone, ExpBad} \cup {ExpAt(x) : x \in RemainSecs}}
InitRemain ==
  /\ users \in {EmptyDoc} \cup {Put(EmptyDoc, "2", [NewUserAt("user", 0) EXCEPT !.sub = x]) : x \in RemainSubs}
  /\ keys = EmptyDoc
  /\ withdraw_requests = EmptyDoc
  /\ withdraw_log = EmptyDoc
  /\ now \in 0..TicksPerSecond
  /\ last = ""
  /\ initial = [u \in UIDS |-> Num(0)]
  /\ probe = ""
  /\ threads = NoThreads
  /\ settings = NoSettings
  /\ pending = NoPending
  /\ store = NoStore
  /\ web = NoWeb

ProbeRemaining ==
  /\ probe' = sub_remaining_str(users, "2", now)
  /\ UNCHANGED <<users, keys, withdraw_requests, withdraw_log, now, last, initial, threads, settings, pending, store, web>>

SpecRemain == InitRemain /\ [][ProbeRemaining]_vars

\* ================================================================ properties
\* users[uid].sub, None for a user without record
SubOf(us, uid) == IF uid \in DOMAIN us THEN us[uid].sub ELSE None
\* every existing request is kept as it is
RequestsKept == \A k \in DOMAIN withdraw_requests :
  k \in DOMAIN withdraw_requests' /\ withdraw_requests'[k] = withdraw_requests[k]
\* no user's balance changes, except possibly that of `but`
BalancesKept(but) == \A u \in UIDS \ but : Balance(users', u) = Balance(users, u)
\* the amount a handler passes to create_withdraw_request for the word tok
AmountOf(tok) == IF int_ok(tok) THEN int(tok) ELSE 0
\* /withdraw <tok> gets as far as create_withdraw_request
CmdReachesCreate(c, tok) == is_sub_active(users, str(c), now) /\ int_ok(tok)

\* C1: after any sequence of withdrawal creations, approvals, denials and
\* /addbal, /takebal, /setbal commands every stored balance is >= 0.
C1_BalanceNonNegative == \A u \in DOMAIN users : FLe(Num(0), users[u].balance)

\* C2: create_withdraw_request(uid, A) with A > 0 and balance(uid) >= A lowers
\* uid's balance by exactly A and adds exactly one request {uid, A, pending};
\* no other balance and no existing request changes.
C2_CreateDebitsExactly ==
  [][\A c \in CHAT_IDS, tok \in WithdrawTokens :
       LET A == AmountOf(tok) IN
       (/\ A > 0 /\ FLe(Cents(A), Balance(users, str(c)))
        /\ \/ CmdReachesCreate(c, tok) /\ cmd_withdraw(c, tok)
           \/ cb_withdraw(c, tok))
       => /\ Balance(users', str(c)) = FSub(Balance(users, str(c)), Cents(A))
          /\ BalancesKept({str(c)})
          /\ RequestsKept
          /\ \E k \in DOMAIN withdraw_requests' \ DOMAIN withdraw_requests :
               /\ DOMAIN withdraw_requests' = DOMAIN withdraw_requests \cup {k}
               /\ withdraw_requests'[k] = [user_id |-> str(c), amount |-> A, status |-> "pending"]
    ]_vars
\* a second request was created while another user's request existed
C2_Witness ==
  /\ DOMAIN withdraw_requests = {"1", "2"}
  /\ withdraw_requests["1"].user_id # withdraw_requests["2"].user_id
  /\ withdraw_requests["2"].amount = 2
  /\ Balance(users, withdraw_requests["2"].user_id) = Num(0)

\* C3: a request with amount <= 0 or amount > balance is rejected (invalid
\* amount / insufficient balance) and create_withdraw_request writes neither
\* document: both stay as they were handed to it.
C3_RejectedCreateWritesNothing ==
  [][\A c \in CHAT_IDS, tok \in WithdrawTokens :
       LET A == AmountOf(tok)
           rejected == /\ last' = (IF A <= 0 THEN "withdraw_invalid" ELSE "withdraw_insufficient")
                       /\ BalancesKept({})
                       /\ withdraw_requests' = withdraw_requests
       IN (A <= 0 \/ FGt(Cents(A), Balance(users, str(c)))) =>
            /\ (CmdReachesCreate(c, tok) /\ cmd_withdraw(c, tok)) =>
                 /\ rejected
                 /\ users' = require_active_or_ask(ensure_user(users, c), c, now).users
            /\ cb_withdraw(c, tok) =>
                 /\ rejected
                 /\ users' = ensure_user(users, c)
    ]_vars
\* a user holding 1.00 was refused a larger withdrawal
C3_Witness ==
  /\ last = "withdraw_insufficient"
  /\ \E u \in DOMAIN users : users[u].balance = Num(100) /\ is_sub_active(users, u, now)
  /\ withdraw_requests = EmptyDoc

\* the sender of the callback passes the admin gate
AdminCaller(c) == is_admin(ensure_user(users, c), str(c))
\* rid names a request that is known and pending
PendingNow(rid) == rid \in DOMAIN withdraw_requests /\ withdraw_requests[rid].status = "pending"
\* every request other than rid is kept, and no request appears or disappears
OtherRequestsKept(rid) ==
  /\ DOMAIN withdraw_requests' = DOMAIN withdraw_requests
  /\ \A k \in DOMAIN withdraw_requests \ {rid} : withdraw_requests'[k] = withdraw_requests[k]

\* C4: an admin deny of a pending request of amount A sets it to denied and
\* raises its owner's balance by exactly A, every other balance unchanged; an
\* admin approve of a pending request sets it to approved and changes no balance.
C4_DenyCreditsApproveDoesNot ==
  [][\A c \in CHAT_IDS, rid \in RidTokens :
       (AdminCaller(c) /\ PendingNow(rid)) =>
         LET req == withdraw_requests[rid] IN
         /\ cb_wden(c, rid) =>
              /\ withdraw_requests'[rid] = [req EXCEPT !.status = "denied"]
              /\ Balance(users', req.user_id) = FAdd(Balance(users, req.user_id), Cents(req.amount))
              /\ BalancesKept({req.user_id})
              /\ OtherRequestsKept(rid)
         /\ cb_wapp(c, rid) =>
              /\ withdraw_requests'[rid] = [req EXCEPT !.status = "approved"]
              /\ BalancesKept({})
              /\ OtherRequestsKept(rid)
    ]_vars
\* one request was denied and refunded, another approved, and both are logged
C4_Witness ==
  /\ \E k \in DOMAIN withdraw_requests :
       /\ withdraw_requests[k].status = "denied"
       /\ Balance(users, withdraw_requests[k].user_id) = Cents(withdraw_requests[k].amount)
  /\ \E k \in DOMAIN withdraw_requests : withdraw_requests[k].status = "approved"
  /\ Cardinality(DOMAIN withdraw_log) = 2

\* C5: a request leaves pending exactly once: a request that is approved,
\* denied or canceled never changes again, and an approve or deny of such a
\* request, or of an unknown id, is rejected and changes no balance, no
\* request and not the withdraw_log.
C5_TerminalRequestsStay ==
  [][/\ \A k \in DOMAIN withdraw_requests :
          withdraw_requests[k].status # "pending" =>
            k \in DOMAIN withdraw_requests' /\ withdraw_requests'[k] = withdraw_requests[k]
     /\ \A c \in CHAT_IDS, rid \in RidTokens :
          (~PendingNow(rid) /\ (cb_wapp(c, rid) \/ cb_wden(c, rid))) =>
            /\ withdraw_requests' = withdraw_requests
            /\ withdraw_log' = withdraw_log
            /\ BalancesKept({})
            /\ AdminCaller(c) => last' = "already_processed"
    ]_vars
\* a second decision on a denied request was refused; the refund stands once
C5_Witness ==
  /\ last = "already_processed"
  /\ \E k \in DOMAIN withdraw_requests :
       /\ withdraw_requests[k].status = "denied"
       /\ Balance(users, withdraw_requests[k].user_id) = Cents(withdraw_requests[k].amount)
  /\ Cardinality(DOMAIN withdraw_log) = 1

\* C6: when the owner cancels one of their own pending requests (cancel_<id>)
\* the request becomes canceled and its amount is credited back to the owner.
C6_OwnerCancelRefunds ==
  [][\A c \in CHAT_IDS, rid \in RidTokens :
       (/\ cb_cancel(c, rid)
        /\ PendingNow(rid)
        /\ withdraw_requests[rid].user_id = str(c))
       => /\ withdraw_requests'[rid].status = "canceled"
          /\ Balance(users', str(c)) =
               FAdd(Balance(users, str(c)), Cents(withdraw_requests[rid].amount))
    ]_vars

\* C7: with creations, approvals and denials only, for each user the balance
\* plus the amounts of the user's pending and approved requests equals the
\* user's initial balance.
C7_Conservation ==
  \A u \in UIDS :
    FAdd(Balance(users, u),
         Num(SumAmounts(withdraw_requests,
                        RequestsOf(withdraw_requests, u, {"pending", "approved"})))) = initial[u]
\* a user who started with 2.00 had one request approved and one denied
C7_Witness ==
  \E u \in UIDS :
    /\ initial[u] = Num(200)
    /\ Balance(users, u) = Num(100)
    /\ RequestsOf(withdraw_requests, u, {"approved"}) # {}
    /\ RequestsOf(withdraw_requests, u, {"denied"}) # {}

\* the key is in the store and has used_by set
UsedKey(k) == k \in DOMAIN keys /\ keys[k].used_by # None
\* the sender is waiting for a key when the text arrives
AwaitsKey(c) == ensure_user(users, c)[str(c)].await_key

\* C8: once a key has used_by set, an activation attempt with it by any user
\* is rejected and changes neither the key store nor any subscription; a
\* used key that stays in the store is never assigned again.
C8_UsedKeyRejected ==
  [][/\ \A k \in KEYS : (UsedKey(k) /\ k \in DOMAIN keys') => keys'[k] = keys[k]
     /\ \A c \in CHAT_IDS, text \in KeyTexts, k \in KEYS :
          (maybe_activate_key(c, text) /\ k = normalize_key(text) /\ UsedKey(k)) =>
            /\ keys' = keys
            /\ \A u \in UIDS : SubOf(users', u) = SubOf(users, u)
            /\ AwaitsKey(c) => last' = "key_used"
    ]_vars
\* a user without subscription offered a key that another user had redeemed
C8_Witness ==
  /\ last = "key_used"
  /\ \E u \in DOMAIN users, k \in DOMAIN keys :
       /\ users[u].sub = None /\ users[u].await_key
       /\ keys[k].used_by # None /\ keys[k].used_by # Some(u)

\* C9: a successful activation of an unused monthly key K by user U at time T
\* writes sub = {monthly, T + 30 days (as a whole-second timestamp), K} onto U,
\* sets K.used_by = U and U's await_key to false, and changes no other user
\* and no other key.
C9_ActivationWrites ==
  [][\A c \in CHAT_IDS, text \in KeyTexts, k \in KEYS :
       (/\ maybe_activate_key(c, text) /\ k = normalize_key(text)
        /\ AwaitsKey(c)
        /\ k \in DOMAIN keys /\ keys[k].used_by = None /\ keys[k].type = "monthly")
       => LET U == str(c) IN
          /\ SubOf(users', U) # None
          /\ users'[U].sub[1].type = "monthly"
          /\ users'[U].sub[1].key = k
          /\ users'[U].sub[1].expire_at.kind = "ts"
          /\ LET secs == users'[U].sub[1].expire_at.secs IN
               /\ secs * TicksPerSecond <= now + DURATIONS_monthly * SecondsPerDay * TicksPerSecond
               /\ now + DURATIONS_monthly * SecondsPerDay * TicksPerSecond < (secs + 1) * TicksPerSecond
          /\ ~users'[U].await_key
          /\ keys' = [keys EXCEPT ![k].used_by = Some(U)]
          /\ \A u \in DOMAIN users \ {U} : u \in DOMAIN users' /\ users'[u] = users[u]
          /\ DOMAIN users' = DOMAIN users \cup {U}
    ]_vars
\* a user redeemed a second key after the first subscription ran out: the
\* subscription names the second key and ends 30 days after that activation
C9_Witness ==
  \E u \in DOMAIN users, k1 \in DOMAIN keys, k2 \in DOMAIN keys :
    /\ k1 # k2
    /\ keys[k1].used_by = Some(u) /\ keys[k2].used_by = Some(u)
    /\ users[u].sub # None
    /\ users[u].sub[1].key = k2
    /\ users[u].sub[1].expire_at = ExpAt(2 * DURATIONS_monthly * SecondsPerDay)
    /\ ~users[u].await_key

\* C10: is_sub_active is False without a subscription, True when expire_at is
\* None, and otherwise True exactly when now < expire_at.
C10_SubActiveIffBeforeExpiry ==
  probe # "" =>
    LET sub == SubOf(users, "2") IN
    (probe = "True") <=>
      /\ sub # None
      /\ \/ sub[1].expire_at.kind = "none"
         \/ /\ sub[1].expire_at.kind = "ts"
            /\ now < sub[1].expire_at.secs * TicksPerSecond
\* asked at the very instant of expiry, the answer is False
C10_Witness ==
  /\ probe = "False"
  /\ SubOf(users, "2") # None
  /\ users["2"].sub[1].expire_at.kind = "ts"
  /\ now = users["2"].sub[1].expire_at.secs * TicksPerSecond
  /\ now > 0

\* thread t has finished a withdrawal creation of user u
Withdrew(t, u) == threads[t].pc = "w_done" /\ threads[t].uid = u
\* thread t has finished an /addbal for user u
Credited(t, u) == threads[t].pc = "a_done" /\ threads[t].uid = u

\* C11: a withdrawal creation and an /addbal for the same user that overlap
\* end in the balance of both mutations or of only one of them: the update
\* of the handler that saved first can be lost.
C11_RaceOutcomes ==
  \A tw \in THREADS, ta \in THREADS, u \in UIDS :
    (Withdrew(tw, u) /\ Credited(ta, u)) =>
      LET both == FSub(FAdd(initial[u], threads[ta].amount), Cents(threads[tw].n))
          debit_only == FSub(initial[u], Cents(threads[tw].n))
          credit_only == FAdd(initial[u], threads[ta].amount)
      IN /\ Balance(users, u) \in {both, debit_only, credit_only}
         /\ \E k \in DOMAIN withdraw_requests :
              withdraw_requests[k] = [user_id |-> u, amount |-> threads[tw].n, status |-> "pending"]
\* both handlers have finished and the credit of /addbal is gone
C11_Witness ==
  \E tw \in THREADS, ta \in THREADS, u \in UIDS :
    /\ Withdrew(tw, u) /\ Credited(ta, u)
    /\ threads[ta].amount = Num(100)
    /\ Balance(users, u) = FSub(initial[u], Cents(threads[tw].n))

\* C12: ensure_user on an id without record creates a user with balance 0,
\* lang "en" and role admin iff the id is in ADMIN_IDS; on an existing user it
\* keeps balance, lang, created_at and subscription (the role may only be
\* promoted to admin for an id in ADMIN_IDS); no other user changes.
\* (A cancel_<id> callback runs ensure_user and nothing else.)
C12_EnsureUser ==
  [][\A c \in CHAT_IDS :
       cb_cancel(c, "1") =>
         LET uid == str(c) IN
         /\ DOMAIN users' = DOMAIN users \cup {uid}
         /\ \A u \in DOMAIN users \ {uid} : users'[u] = users[u]
         /\ uid \notin DOMAIN users =>
              /\ users'[uid].balance = Num(0)
              /\ users'[uid].lang = "en"
              /\ users'[uid].role = (IF c \in ADMIN_IDS THEN "admin" ELSE "user")
              /\ users'[uid].sub = None
         /\ uid \in DOMAIN users =>
              /\ users'[uid].balance = users[uid].balance
              /\ users'[uid].lang = users[uid].lang
              /\ users'[uid].created_at = users[uid].created_at
              /\ users'[uid].sub = users[uid].sub
              /\ \/ users'[uid].role = users[uid].role
                 \/ c \in ADMIN_IDS /\ users'[uid].role = "admin"
    ]_vars
\* an old record of the admin account was promoted and kept its language,
\* balance and subscription, and a second user was created later
C12_Witness ==
  /\ DOMAIN users = UIDS
  /\ users["1"].role = "admin" /\ users["1"].lang = "ar"
  /\ users["1"].balance = Num(100) /\ users["1"].sub # None
  /\ users["1"].created_at = Some(0)
  /\ users["2"].role = "user" /\ users["2"].created_at = Some(strftime(Days(DURATIONS_monthly)))
  /\ users["2"].sub = None /\ users["2"].balance = Num(0) /\ users["2"].lang = "en"
  /\ initial["1"] = Num(0)

\* the number float(tok) in thousandths, for the words that are numbers
IsNumber(tok) == float_ok(tok) /\ tok # "nan"
\* the admin command reaches an existing target
AdminOn(c, target) == AdminCaller(c) /\ target \in DOMAIN ensure_user(users, c)

\* C13: /setbal on an existing user accepts every amount >= 0, including 0,
\* and overwrites the balance with exactly that amount.
C13_SetbalAcceptsZero ==
  [][\A c \in CHAT_IDS, target \in UIDS, tok \in BalanceAmounts :
       (AdminOn(c, target) /\ IsNumber(tok) /\ float_milli(tok) >= 0 /\ cmd_setbal(c, target, tok))
       => Balance(users', target) = Num(float_milli(tok) \div 10)
    ]_vars

\* C14: /takebal on an existing user with a valid positive amount sets the
\* balance to max(0, old balance - amount), also when the amount exceeds the
\* balance (a NaN balance becomes 0.0), and changes no other balance.
C14_TakebalFloorsAtZero ==
  [][\A c \in CHAT_IDS, target \in UIDS, tok \in TakeAmounts :
       (/\ AdminOn(c, target) /\ IsNumber(tok)
        /\ float_milli(tok) > 0 /\ float_milli(tok) <= 1000000 * 1000
        /\ cmd_takebal(c, target, tok))
       => LET old == Balance(users, target)
              rest == old.v - round2(float_milli(tok))
          IN /\ Balance(users', target) =
                  Num(IF ~old.nan /\ rest > 0 THEN rest ELSE 0)
             /\ BalancesKept({target})
    ]_vars
\* /takebal has left a user at 0.00 while a request of that user is still
\* pending and the other user keeps 1.00
C14_Witness ==
  /\ last = "bal_taken_ok"
  /\ DOMAIN users = UIDS
  /\ users["2"].balance = Num(0)
  /\ users["1"].balance = Num(100)
  /\ \E k \in DOMAIN withdraw_requests :
       withdraw_requests[k] = [user_id |-> "2", amount |-> 1, status |-> "pending"]

\* C15: an admin-gated action invoked by a caller who is neither in ADMIN_IDS
\* nor stored with role admin changes no balance, subscription, key, setting,
\* withdrawal request or log entry: the users document becomes what
\* ensure_user makes of it for the caller, and nothing else is written.
C15_GateKeepsNonAdminsOut ==
  [][\A c \in CHAT_IDS :
       (/\ c \notin ADMIN_IDS
        /\ (str(c) \in DOMAIN users => users[str(c)].role # "admin")
        /\ GatedAction(c)) =>
         /\ users' = ensure_user(users, c)
         /\ BalancesKept({})
         /\ \A u \in UIDS : SubOf(users', u) = SubOf(users, u)
         /\ keys' = keys
         /\ settings' = settings
         /\ withdraw_requests' = withdraw_requests
         /\ withdraw_log' = withdraw_log
         /\ pending' = pending
    ]_vars
\* the non-admin account has been answered "admin only" (its record exists, as
\* ensure_user writes it) and the admin's balance, subscription, key and
\* request stand
C15_Witness ==
  /\ DOMAIN users = UIDS
  /\ users["2"] = NewUserAt("user", 0)
  /\ users["1"].balance = Num(100) /\ users["1"].sub # None /\ users["1"].label = Absent
  /\ DOMAIN keys = {"MO-AAAA-AAAA-AAAA"}
  /\ withdraw_requests["1"].status = "pending"
  /\ settings = NoSettings /\ pending = NoPending
  /\ last = "admin_only"

\* C16: "/gensub <uid> +days n" by an admin sets expire_at to the existing
\* expire_at plus n days only if the target has a subscription whose expire_at
\* is present and in the future; otherwise it sets expire_at to now plus n days.
C16_ExtendOnlyLiveSubs ==
  [][\A c \in CHAT_IDS, days \in DaysTokens :
       (AdminCaller(c) /\ int_ok(days) /\ cmd_gensub(c, "2", "+days", days)) =>
         LET sub == SubOf(users, "2")
             live == sub # None /\ sub[1].expire_at.kind = "ts"
                       /\ strptime(sub[1].expire_at.secs) > now
             exp == IF live THEN strftime(strptime(sub[1].expire_at.secs) + Days(int(days)))
                    ELSE strftime(now + Days(int(days)))
         IN SubOf(users', "2") = Some([type |-> "monthly", expire_at |-> ExpAt(exp), key |-> "MANUAL"])
    ]_vars

\* C17: /delsub by an admin removes the target's subscription, so that
\* is_sub_active is False for that user from then on until a key activation or
\* a /gensub gives a new one; it changes no balance, and the key recorded in
\* the removed subscription stays used: nobody can redeem it again.
C17_DelsubRemoves ==
  [][/\ \A c \in CHAT_IDS, target \in UIDS :
          (AdminOn(c, target) /\ SubOf(users, target) # None /\ cmd_delsub(c, target)) =>
            /\ SubOf(users', target) = None
            /\ ~is_sub_active(users', target, now')
            /\ BalancesKept({})
            /\ keys' = keys
            /\ LET key == SubOf(users, target)[1].key IN
               \A u \in UIDS : ~activate_key_for_user(users', keys', u, key, now').ok
     /\ \A u \in UIDS :
          (SubOf(users, u) = None /\ is_sub_active(users', u, now')) =>
            \/ \E text \in KEYS : maybe_activate_key(int_of_uid(u), text)
            \/ \E c \in CHAT_IDS : cmd_gensub(c, u, "monthly", "")
    ]_vars
\* the subscription user 2 had activated with a key is gone, the key is still
\* recorded as used by 2, and 2 has just been told so on sending it again
C17_Witness ==
  /\ "2" \in DOMAIN users
  /\ users["2"].sub = None
  /\ \E key \in DOMAIN keys : keys[key].used_by = Some("2")
  /\ last = "key_used"

\* C18: with handlers run one at a time, no step removes an entry of
\* withdraw_requests or changes whose request it is and for how much, and each
\* successful creation adds exactly one entry under an id that no entry had:
\* ids are never reused and the number of entries never decreases.
C18_RequestIdsFresh ==
  [][/\ \A rid \in DOMAIN withdraw_requests :
          /\ rid \in DOMAIN withdraw_requests'
          /\ withdraw_requests'[rid].user_id = withdraw_requests[rid].user_id
          /\ withdraw_requests'[rid].amount = withdraw_requests[rid].amount
     /\ Cardinality(DOMAIN withdraw_requests') >= Cardinality(DOMAIN withdraw_requests)
     /\ \A c \in CHAT_IDS, tok \in WithdrawTokens :
          (/\ create_withdraw_request(ensure_user(users, c), withdraw_requests,
                                      str(c), AmountOf(tok)).res = "withdraw_created"
           /\ cb_withdraw(c, tok)) =>
            \E rid \in DOMAIN withdraw_requests' :
              /\ rid \notin DOMAIN withdraw_requests
              /\ DOMAIN withdraw_requests' = DOMAIN withdraw_requests \cup {rid}
              /\ withdraw_requests'[rid] = [user_id |-> str(c), amount |-> AmountOf(tok), status |-> "pending"]
    ]_vars
\* a request was created while an earlier one had already been decided: both
\* entries are there, under different ids
C18_Witness ==
  /\ DOMAIN withdraw_requests = {"1", "2"}
  /\ withdraw_requests["1"].status # "pending"
  /\ withdraw_requests["2"].status = "pending"
  /\ withdraw_requests["1"].user_id = "2" /\ withdraw_requests["2"].user_id = "2"

\* the requests an admin has decided
Decided == {rid \in DOMAIN withdraw_requests : withdraw_requests[rid].status \in {"approved", "denied"}}
\* what the log holds for a decided request
LogEntryOf(req, action) ==
  [user_id |-> req.user_id, amount |-> req.amount, status |-> req.status,
   processed_at |-> strftime(now), action |-> action]
\* C20: every admin approve or deny that takes effect appends exactly one new
\* entry to withdraw_log, holding the request as it is stored afterwards plus
\* processed_at and action; no step modifies or removes a log entry; so the
\* number of log entries equals the number of approved or denied requests.
C20_LogAppendOnly ==
  /\ [](Cardinality(DOMAIN withdraw_log) = Cardinality(Decided))
  /\ [][/\ \A k \in DOMAIN withdraw_log :
             k \in DOMAIN withdraw_log' /\ withdraw_log'[k] = withdraw_log[k]
        /\ \A c \in CHAT_IDS, rid \in RidTokens :
             (AdminCaller(c) /\ PendingNow(rid) /\ (cb_wapp(c, rid) \/ cb_wden(c, rid))) =>
               \E k \in DOMAIN withdraw_log' :
                 /\ k \notin DOMAIN withdraw_log
                 /\ DOMAIN withdraw_log' = DOMAIN withdraw_log \cup {k}
                 /\ withdraw_log'[k] = LogEntryOf(withdraw_requests'[rid], withdraw_requests'[rid].status)
       ]_vars
\* one request has been approved and another denied, and the log holds the two
\* entries
C20_Witness ==
  /\ Cardinality(DOMAIN withdraw_log) = 2
  /\ {withdraw_log[k].action : k \in DOMAIN withdraw_log} = {"approved", "denied"}
  /\ {withdraw_requests[rid].status : rid \in DOMAIN withdraw_requests} = {"approved", "denied"}

\* C19: load_json(name) right after save_json(name, value), with no other
\* write in between, returns a value structurally equal to value, with the
\* file backend and with the relational backend.
C19_SaveThenLoad ==
  [][\A name \in StoreNames :
       (/\ store.saved # None
        /\ store.saved[1].name = name
        /\ load_json(name)) =>
         store'.got = Some(store.saved[1].data)
    ]_vars
\* a nested document with a float, an int, a string and a None has come back
\* from the relational backend
C19_Witness ==
  /\ store.use_db /\ store.db_up
  /\ store.got # None
  /\ store.got[1][1] = "dict"
  /\ "a" \in DOMAIN store.got[1][2]
  /\ "label" \in DOMAIN store.got[1][2]["a"][2]
  /\ store.got = Some(store.saved[1].data)

\* C21: the webhook answers every POST with 200, also when decoding the body,
\* parsing the update or running the handler raises; and an update that
\* arrives after a failed one is still handled as its handler prescribes.
C21_WebhookAlways200 ==
  [][\A raw \in WebBodies :
       webhook("POST", raw) =>
         /\ web'.status = 200
         /\ (web.failed /\ raw.kind = "set_lang") =>
              users' = (IF raw.arg \in LANGS
                        THEN set_lang(ensure_user(users, raw.c), str(raw.c), raw.arg)
                        ELSE ensure_user(users, raw.c))
    ]_vars
\* after a POST that raised and was answered 200, user 2 has changed language
C21_Witness ==
  /\ web.failed
  /\ web.status = 200
  /\ "2" \in DOMAIN users
  /\ users["2"].lang = "tr"

\* C22: when two activations of the same unused key by two users run with
\* their loads and saves interleaved, at most one succeeds: no two users hold
\* a subscription obtained from the same key.
C22_KeyRedeemedOnce ==
  \A u \in UIDS, v \in UIDS :
    (u # v /\ SubOf(users, u) # None /\ SubOf(users, v) # None) =>
      ~(SubOf(users, u)[1].key \in KEYS /\ SubOf(users, u)[1].key = SubOf(users, v)[1].key)

\* C23: when two withdrawal creations run with their loads and saves
\* interleaved, every creation that has saved its request is an entry of its
\* own in withdraw_requests: there are as many entries as such creations.
C23_EveryCreationKept ==
  Cardinality(DOMAIN withdraw_requests)
    = Cardinality({t \in THREADS : threads[t].pc \in {"w_debit", "w_done"}})

\* the label and country of every user other than `but` are as ensure_user
\* for the caller leaves them
LabelsKept(c, but) ==
  \A u \in DOMAIN users' \ but :
    /\ u \in DOMAIN ensure_user(users, c)
    /\ users'[u].label = ensure_user(users, c)[u].label
    /\ users'[u].country = ensure_user(users, c)[u].country
\* the text as a label or country: stripped, cut to 32 characters, None for
\* "-" and for nothing
AsSlotValue(text) ==
  CASE text \in {"-", " "} -> NoneText
    [] text = " vip " -> "vip"
    [] text = Long33 -> "abcdefghijklmnopqrstuvwxyz012345"
    [] OTHER -> text
\* field f of user u, Absent for a user without record
FieldOf(us, u, f) == IF u \in DOMAIN us THEN us[u][f] ELSE Absent
\* C24: when an admin has a pending label (country) slot, the next message of
\* that admin that reaches the slot's handler removes the slot and writes its
\* text, stripped and cut to 32 characters, or None for "-" or an empty text,
\* as label (country) of exactly the user recorded in the slot; without a
\* slot being consumed in the step, no label and no country is given a text.
C24_SlotConsumedOnce ==
  [][/\ \A c \in CHAT_IDS :
          c \in DOMAIN pending.label =>
            \A text \in SlotTexts \ {"/start"} :
              on_message(c, text) =>
                /\ c \notin DOMAIN pending'.label
                /\ pending'.country = pending.country
                /\ users'[pending.label[c]].label = AsSlotValue(text)
                /\ users'[pending.label[c]].country = FieldOf(users, pending.label[c], "country")
                /\ LabelsKept(c, {pending.label[c]})
     /\ \A c \in CHAT_IDS :
          (c \notin DOMAIN pending.label /\ c \in DOMAIN pending.country) =>
            \A text \in SlotTexts \ {"/start"} :
              on_message(c, text) =>
                /\ c \notin DOMAIN pending'.country
                /\ users'[pending.country[c]].country = AsSlotValue(text)
                /\ users'[pending.country[c]].label = FieldOf(users, pending.country[c], "label")
                /\ LabelsKept(c, {pending.country[c]})
     /\ \A u \in DOMAIN users' :
          /\ FieldOf(users', u, "label") \notin {FieldOf(users, u, "label"), NoneText, Absent} =>
               \E c \in DOMAIN pending.label : pending.label[c] = u /\ c \notin DOMAIN pending'.label
          /\ FieldOf(users', u, "country") \notin {FieldOf(users, u, "country"), NoneText, Absent} =>
               \E c \in DOMAIN pending.country : pending.country[c] = u /\ c \notin DOMAIN pending'.country
    ]_vars
\* the admin's label slot for user 2 is gone and user 2 carries the first 32
\* characters of the 33 the admin sent; the country was given as " vip "
C24_Witness ==
  /\ "2" \in DOMAIN users
  /\ users["2"].label = "abcdefghijklmnopqrstuvwxyz012345"
  /\ users["2"].country = "vip"
  /\ pending.label = EmptyDoc /\ pending.country = EmptyDoc

\* C25: the pending player-search slot of an admin is removed by the very next
\* plain-text message of that admin, whatever its text (a found id, an
\* unknown id, non-digits or "-").
C25_SearchSlotConsumed ==
  [][\A c \in CHAT_IDS :
       (c \in DOMAIN pending.search /\ c \notin DOMAIN pending.label
          /\ c \notin DOMAIN pending.country) =>
         \A text \in SlotTexts :
           (~is_command(text) /\ on_message(c, text)) => c \notin DOMAIN pending'.search
    ]_vars

\* C26: while an admin has a pending label, country or search slot, a command
\* message of that admin (/addbal, /takebal, /setbal) is still handled by its
\* own command handler and is not taken as input for the slot.
C26_CommandsNotSwallowed ==
  [][\A c \in CHAT_IDS :
       (c \in DOMAIN pending.label \/ c \in DOMAIN pending.country
          \/ c \in DOMAIN pending.search) =>
         /\ on_message(c, "/addbal 2 1") => cmd_addbal(c, "2", "1")
         /\ on_message(c, "/takebal 2 1") => cmd_takebal(c, "2", "1")
         /\ on_message(c, "/setbal 2 1") => cmd_setbal(c, "2", "1")
    ]_vars

\* C27: in every state the store is left in, also by a crash between the two
\* writes of create_withdraw_request, the amounts of a user's pending requests
\* have been debited from the user's balance.
C27_PendingAlreadyDebited ==
  Quiet =>
    \A u \in UIDS :
      FLe(FAdd(Balance(users, u),
               Num(SumAmounts(withdraw_requests, RequestsOf(withdraw_requests, u, {"pending"})))),
          initial[u])

\* C28: in every state the store is left in, also by a crash between two
\* writes of a deny, a request whose amount has been credited back is no
\* longer pending, and the amount is credited back at most once.
C28_CreditedAtMostOnce ==
  Quiet =>
    /\ FLe(Balance(users, "2"), initial["2"])
    /\ Balance(users, "2") = initial["2"] => withdraw_requests["1"].status # "pending"

\* C29: with activations run one at a time and no /delkey, in every state the
\* store is left in, also by a crash between the two writes of
\* activate_key_for_user, a user whose subscription records key K implies
\* that K is marked used in the key store.
C29_SubImpliesKeyUsed ==
  \A u \in UIDS :
    (SubOf(users, u) # None /\ SubOf(users, u)[1].key \in KEYS) =>
      /\ SubOf(users, u)[1].key \in DOMAIN keys
      /\ keys[SubOf(users, u)[1].key].used_by # None
\* a crash between the two writes: the key is marked as used by user 2, who
\* has no subscription
C29_Witness ==
  \E t \in THREADS, k \in DOMAIN keys :
    /\ threads[t].pc = "crashed"
    /\ keys[k].used_by = Some("2")
    /\ SubOf(users, "2") = None
    /\ Quiet

\* some stored subscription records that it was redeemed from key k
Redeemed(k) == \E u \in UIDS : SubOf(users, u) # None /\ SubOf(users, u)[1].key = k
\* this step marks the unused or missing key k as used: an activation with it succeeds
ActivatedNow(k) ==
  /\ k \in DOMAIN keys' /\ keys'[k].used_by # None
  /\ IF k \in DOMAIN keys THEN keys[k].used_by = None ELSE TRUE

\* C30: a key value that has been redeemed once is never redeemed again,
\* whatever /delkey and /genkey commands the admin issues in between: no
\* activation with the value of a key recorded in a subscription succeeds.
C30_RedeemedNeverAgain ==
  [][\A k \in KEYS : Redeemed(k) => ~ActivatedNow(k)]_vars

\* the user's stored await_key flag (a user without record has none)
Awaiting(c) == IF str(c) \in DOMAIN users THEN users[str(c)].await_key ELSE FALSE
\* the key a message text stands for, once trimmed, upper-cased and freed of blanks
KeyOfText(text) == IF text = "mo-aaaa aaaa-aaaa" THEN "MO-AAAA-AAAA-AAAA" ELSE text
\* the text names a key of the store that nobody has used
NamesUnusedKey(text) ==
  IF KeyOfText(text) \in DOMAIN keys THEN keys[KeyOfText(text)].used_by = None ELSE FALSE
\* no user's subscription changes
SubsKept == \A u \in UIDS : SubOf(users', u) = SubOf(users, u)

\* C31: a plain-text message from a user whose await_key flag is false changes
\* neither the key store nor any subscription; a message with a malformed,
\* unknown or already used key from a user whose flag is true changes neither
\* the key store nor any subscription and leaves the flag true.
C31_KeyOnlyWhenAwaited ==
  [][\A c \in CHAT_IDS, text \in KeyTexts :
       maybe_activate_key(c, text) =>
         /\ ~Awaiting(c) => (keys' = keys /\ SubsKept)
         /\ (Awaiting(c) /\ ~NamesUnusedKey(text)) =>
              (keys' = keys /\ SubsKept /\ users'[str(c)].await_key)]_vars
\* C31 witness: an awaited user was just refused a key that another user had used
C31_Witness ==
  /\ last = "key_used"
  /\ \E u \in UIDS, k \in DOMAIN keys :
       /\ u \in DOMAIN users /\ users[u].await_key /\ SubOf(users, u) = None
       /\ keys[k].used_by # None /\ keys[k].used_by # Some(u)

\* C32: for a user without an active subscription neither /withdraw nor a
\* withdraw_<amount> button creates a request or debits a balance.
C32_WithdrawNeedsSubscription ==
  [][\A c \in CHAT_IDS, tok \in WithdrawTokens :
       ((cmd_withdraw(c, tok) \/ cb_withdraw(c, tok)) /\ ~is_sub_active(users, str(c), now)) =>
         (withdraw_requests' = withdraw_requests /\ BalancesKept({}))]_vars

\* C33: with the relational backend enabled and failing now and then, a
\* load_json(name) returns the value of the last save_json(name, .) that
\* returned, whatever failures and recoveries of the database lie in between.
C33_LastSaveVisible ==
  [][\A name \in StoreNames :
       (/\ store.use_db
        /\ store.saved # None
        /\ store.saved[1].name = name
        /\ load_json(name)) =>
         store'.got = Some(store.saved[1].data)
    ]_vars

\* what the file at path p holds in store st (NoFile when there is none)
NoFile == <<"absent", 0>>
FileAt(st, p) == IF p \in DOMAIN st.files THEN st.files[p] ELSE NoFile
\* the complete JSON texts of the documents written
CompleteTexts == {json_dumps(v) : v \in StoreValues}

\* C34: with a single writer, at every point of _atomic_write_json, a crash
\* between writing the temporary file and the rename included, the target
\* file holds the complete previous document or the complete new one, never
\* a partial one.
C34_TargetNeverPartial ==
  [][\A p \in WritePaths :
       /\ FileAt(store', p) \in CompleteTexts \cup {NoFile}
       /\ \/ FileAt(store', p) = FileAt(store, p)
          \/ p = store.w.path /\ FileAt(store', p) = store.w.text]_vars
\* C34 witness: a write of users.json was cut short with the temporary file
\* partly written, and users.json holds an earlier complete document
C34_Witness ==
  /\ store.w.pc = "idle"
  /\ FileAt(store, "users.json.tmp") = PartFile
  /\ FileAt(store, "users.json") \in CompleteTexts

\* the values occurring in a sequence of draws
Drawn(draws) == {draws[i] : i \in DOMAIN draws}

\* C35: generate_keys("monthly", n) adds exactly n new, pairwise distinct,
\* well-formed keys that were not present before, each without used_by, and
\* leaves every existing key entry, used or unused, as it was; a drawn value
\* that is already present is drawn again.
C35_GenerateAddsFreshKeys ==
  [][\A c \in CHAT_IDS, count \in GenCounts, draws \in DrawSeqs :
       cmd_genkey_drawing(c, count, draws) =>
         /\ \A k \in DOMAIN keys : k \in DOMAIN keys' /\ keys'[k] = keys[k]
         /\ Cardinality(DOMAIN keys' \ DOMAIN keys) = count
         /\ \A k \in DOMAIN keys' \ DOMAIN keys :
              k \in Drawn(draws) /\ KEY_RE_match(k) /\ keys'[k].used_by = None]_vars
\* C35 witness: a call whose draws hit a present key has ended, and the store
\* holds a used key beside an unused one
C35_Witness ==
  /\ last = "genkey_redrawn"
  /\ \E k1, k2 \in DOMAIN keys : keys[k1].used_by # None /\ keys[k2].used_by = None

\* the text expected for a number of remaining whole seconds
RemainText ==
  [r \in {1, 2, 9, 10, 59, 60, 61, 69, 70, 3599, 3600, 3601, 3659, 3660, 3661, 7199, 7200,
          86399, 86400, 86401, 86459, 86460, 89999, 90000, 90060, 90061,
          172799, 172800, 176460, 176461} |->
     CASE r = 1 -> "01s" [] r = 2 -> "02s" [] r = 9 -> "09s" [] r = 10 -> "10s"
       [] r = 59 -> "59s" [] r = 60 -> "1m 00s" [] r = 61 -> "1m 01s"
       [] r = 69 -> "1m 09s" [] r = 70 -> "1m 10s"
       [] r = 3599 -> "59m 59s" [] r = 3600 -> "1h 0m 00s" [] r = 3601 -> "1h 0m 01s"
       [] r = 3659 -> "1h 0m 59s" [] r = 3660 -> "1h 1m 00s" [] r = 3661 -> "1h 1m 01s"
       [] r = 7199 -> "1h 59m 59s" [] r = 7200 -> "2h 0m 00s"
       [] r = 86399 -> "23h 59m 59s" [] r = 86400 -> "1d 0h 0m 00s"
       [] r = 86401 -> "1d 0h 0m 01s" [] r = 86459 -> "1d 0h 0m 59s"
       [] r = 86460 -> "1d 0h 1m 00s" [] r = 89999 -> "1d 0h 59m 59s"
       [] r = 90000 -> "1d 1h 0m 00s" [] r = 90060 -> "1d 1h 1m 00s"
       [] r = 90061 -> "1d 1h 1m 01s" [] r = 172799 -> "1d 23h 59m 59s"
       [] r = 172800 -> "2d 0h 0m 00s" [] r = 176460 -> "2d 1h 1m 00s"
       [] r = 176461 -> "2d 1h 1m 01s"]
\* the whole seconds from now until the stored expiry x: a started second does not count
WholeLeft(x) == IF now % TicksPerSecond = 0 THEN x - (now \div TicksPerSecond)
                ELSE x - (now \div TicksPerSecond) - 1

\* C36: sub_remaining_str returns "0s" for a user without subscription or
\* with no whole second left, the infinity sign when expire_at is None, and
\* otherwise days, hours, minutes and seconds from the first unit that is
\* not zero on, with every lower unit shown and the seconds in two digits.
C36_RemainingFormat ==
  probe # "" =>
    IF SubOf(users, "2") = None THEN probe = "0s"
    ELSE LET exp == SubOf(users, "2")[1].expire_at IN
         /\ exp.kind = "none" => probe = INFINITY
         /\ (exp.kind = "ts" /\ WholeLeft(exp.secs) <= 0) => probe = "0s"
         /\ (exp.kind = "ts" /\ WholeLeft(exp.secs) > 0) => probe = RemainText[WholeLeft(exp.secs)]
\* C36 witness: exactly one hour is left and the answer is "1h 0m 00s"
C36_Witness ==
  /\ probe = "1h 0m 00s"
  /\ now = 0
  /\ SubOf(users, "2") = Some([type |-> "monthly", expire_at |-> ExpAt(3600), key |-> "MANUAL"])

\* the pending requests of the users in `owners`, oldest first
PendingInOrder(owners) ==
  LET n == Cardinality(DOMAIN withdraw_requests)
      listed(k) == withdraw_requests[str(k)].user_id \in owners
                   /\ withdraw_requests[str(k)].status = "pending"
      shown == SelectSeq([k \in 1..n |-> k], listed)
  IN [i \in DOMAIN shown |-> str(shown[i])]

\* C37: the withdraw_status listing offers exactly the pending requests of
\* the caller, and /wlist gives the admin every pending request of every
\* user, both in insertion order.
C37_PendingListings ==
  [][\A c \in CHAT_IDS :
       /\ cb_withdraw_status(c) => probe'[3] = <<"buttons", PendingInOrder({str(c)})>>
       /\ (cmd_wlist(c) /\ c \in ADMIN_IDS /\ PendingInOrder(UIDS) # <<>>) =>
            probe'[3][2] = PendingInOrder(UIDS)]_vars
\* the listing of withdraw_status taken alone
StatusButtonsExact ==
  [][\A c \in CHAT_IDS :
       cb_withdraw_status(c) => probe'[3] = <<"buttons", PendingInOrder({str(c)})>>]_vars

====
